---- MODULE Spec2Model ----
(***************************************************************************)
(* Session / voting synchronisation core of the nonprofit trolley game.    *)
(*                                                                         *)
(* The durable store (sessions, participants, session_scenarios, votes,    *)
(* rationales, mitigations) is modelled as sets of rows.  Every HTTP       *)
(* request is a unit of work that yields at each awaited statement: a step *)
(* of the model is one statement reaching the store.  A handler that has   *)
(* more statements to run waits in `inflight` (a bag: two identical        *)
(* requests may be in flight together); the step that ends a handler puts  *)
(* what it returns in `response`.                                          *)
(* The store declares no uniqueness constraint besides sessions.room_code  *)
(* and runs transactions at the default READ COMMITTED level: a statement  *)
(* sees whatever was committed before it, and the rows a transaction       *)
(* writes appear together at its COMMIT.                                   *)
(* The realtime services keep the data of each socket, the running timers  *)
(* and what they emit: `received` is the inbound message a step handled,   *)
(* `emitted` what that step emitted.                                       *)
(***************************************************************************)
EXTENDS Integers, Sequences, FiniteSets, Bags, TLC

VARIABLES sessions, participants, sessionScenarios, votes, rationales,
          mitigations, circuitBreakers, now, inflight, response,
          socketData, sessionTimers, received, emitted, gameStore,
          rateLimiters, handled, ipViolations, suspiciousIPs,
          connectionAttempts, blockedIPs, mockSessions, generated,
          storeIntervals, bulkhead

dbVars == <<sessions, participants, sessionScenarios, votes, rationales, mitigations>>
rtVars == <<socketData, sessionTimers, received, emitted>>
reqVars == <<inflight, response>>
(* the state outside the store and the realtime service: the client's store *)
storeVars == <<gameStore, storeIntervals>>
limitVars == <<rateLimiters, handled, ipViolations, suspiciousIPs>>
connVars == <<connectionAttempts, blockedIPs>>
roomVars == <<mockSessions, generated>>
poolVars == <<bulkhead>>
sideVars == <<storeVars, limitVars, connVars, roomVars, poolVars>>
notStore == <<limitVars, connVars, roomVars, poolVars>>
notLimit == <<storeVars, connVars, roomVars, poolVars>>
notConn == <<storeVars, limitVars, roomVars, poolVars>>
notRoom == <<storeVars, limitVars, connVars, poolVars>>
notPool == <<storeVars, limitVars, connVars, roomVars>>
vars == <<dbVars, circuitBreakers, now, reqVars, rtVars, sideVars>>

----------------------------------------------------------------------------
(* Bounds of the model *)

MaxVotes == 2
MaxInFlight == 2
MaxCalls == 4
MaxParticipantRows == 3
MaxScenarioRows == 3
MaxClock == 2
MaxTimers == 1
MaxTimerHandles == 2

SessionIds == {"s1", "s2"}
ScenarioIds == {"A", "B"}
RoomCodes == {"AAAAAA", "BBBBBB"}
Sockets == {"k1", "k2"}

----------------------------------------------------------------------------
(* Values of the schema *)

SessionStatus == {"waiting", "active", "complete", "cancelled"}
VoteType == {"pull", "dont_pull"}
VoteInputs == VoteType \cup {"abstain"}
NoText == ""
(* <<rationale, mitigation>> as a client sends them *)
TextInputs == {<<NoText, NoText>>, <<" ", NoText>>, <<"<b>why</b>", "fix">>}

NoResponse == [op |-> "none"]

(* String.prototype.trim on the texts of the model *)
Trim(t) == IF t = " " THEN "" ELSE t

(* SanitizationService.sanitizeText with stripHtml: tags removed, trimmed *)
sanitizeText(t) ==
  IF t = NoText THEN ""
  ELSE Trim(IF t = "<b>why</b>" THEN "why" ELSE t)

sanitizeRationale(t) == sanitizeText(t)
sanitizeMitigation(t) == sanitizeText(t)

----------------------------------------------------------------------------
(* The store *)

NULL == -1
(* a session id that is undefined *)
NoSession == "null"

SessionRow(id, code, maxP, t) ==
  [id |-> id, roomCode |-> code, status |-> "waiting", maxParticipants |-> maxP,
   createdAt |-> t, endedAt |-> NULL]

ParticipantRow(id, sid, fp) ==
  [id |-> id, sessionId |-> sid, fingerprint |-> fp, isActive |-> TRUE, joinedAt |-> now]

VoteRow(id, sid, pid, scid, v) ==
  [id |-> id, sessionId |-> sid, participantId |-> pid, scenarioId |-> scid, vote |-> v]

ParticipantIds == 1..MaxParticipantRows

(* REFERENCES sessions(id) / participants(id) and the vote_type enum *)
VoteInsertable(sid, pid, v) ==
  /\ \E s \in sessions : s.id = sid
  /\ \E p \in participants : p.id = pid
  /\ v \in VoteType

VotesOf(sid, pid, scid) ==
  {v \in votes : v.sessionId = sid /\ v.participantId = pid /\ v.scenarioId = scid}

VotesFor(sid, scid) ==
  {v \in votes : v.sessionId = sid /\ v.scenarioId = scid}

----------------------------------------------------------------------------
(* Handlers in flight *)

Suspend(k) == inflight (+) SetToBag({k})
Resume(k, next) == (inflight (-) SetToBag({k})) (+) SetToBag({next})
Finish(k) == inflight (-) SetToBag({k})
Waiting == BagToSet(inflight)
CanSuspend == BagCardinality(inflight) < MaxInFlight

(* the vote rows there are and the ones the transactions in flight may add *)
VoteBudgetLeft ==
  Cardinality(votes) + BagCardinality(inflight) < MaxVotes

----------------------------------------------------------------------------
(* Vote Ledger: RoomService.submitVote (three awaited inserts, no transaction) *)

VoteReq(op, pc, sid, pid, scid, v, rat, mit, id) ==
  [op |-> op, pc |-> pc, sessionId |-> sid, participantId |-> pid, scenarioId |-> scid,
   vote |-> v, rationale |-> rat, mitigation |-> mit, voteId |-> id]

VoteResponse(q, result) ==
  [op |-> q.op, sessionId |-> q.sessionId, participantId |-> q.participantId,
   scenarioId |-> q.scenarioId, vote |-> q.vote, voteId |-> q.voteId, result |-> result]

(* where the handler goes after the vote row is in: the two optional inserts *)
AfterVote(q) ==
  IF Trim(q.rationale) # "" THEN "insertRationale"
  ELSE IF Trim(q.mitigation) # "" THEN "insertMitigation"
  ELSE "done"

AfterRationale(q) ==
  IF Trim(q.mitigation) # "" THEN "insertMitigation" ELSE "done"

RS_SubmitVote(sid, pid, scid, v, rat, mit) ==
  LET id == Cardinality(votes) + 1
      q == VoteReq("RoomService.submitVote", "insertVote", sid, pid, scid, v, rat, mit, id)
  IN
  /\ VoteBudgetLeft /\ CanSuspend
  /\ IF VoteInsertable(sid, pid, v)
     THEN /\ votes' = votes \cup {VoteRow(id, sid, pid, scid, v)}
          /\ IF AfterVote(q) = "done"
             THEN inflight' = inflight /\ response' = VoteResponse(q, "ok")
             ELSE inflight' = Suspend([q EXCEPT !.pc = AfterVote(q)]) /\ response' = NoResponse
     ELSE /\ votes' = votes /\ inflight' = inflight
          /\ response' = VoteResponse([q EXCEPT !.voteId = NULL], "StorageError")
  /\ UNCHANGED <<sessions, participants, sessionScenarios, rationales, mitigations,
                 circuitBreakers, now, sideVars, rtVars>>

RS_SubmitVote_InsertRationale(q) ==
  /\ q \in Waiting /\ q.op = "RoomService.submitVote" /\ q.pc = "insertRationale"
  /\ rationales' = rationales \cup {[voteId |-> q.voteId, originalText |-> Trim(q.rationale)]}
  /\ IF AfterRationale(q) = "done"
     THEN inflight' = Finish(q) /\ response' = VoteResponse(q, "ok")
     ELSE inflight' = Resume(q, [q EXCEPT !.pc = AfterRationale(q)]) /\ response' = NoResponse
  /\ UNCHANGED <<sessions, participants, sessionScenarios, votes, mitigations,
                 circuitBreakers, now, sideVars, rtVars>>

RS_SubmitVote_InsertMitigation(q) ==
  /\ q \in Waiting /\ q.op = "RoomService.submitVote" /\ q.pc = "insertMitigation"
  /\ mitigations' = mitigations \cup {[voteId |-> q.voteId, originalText |-> Trim(q.mitigation)]}
  /\ inflight' = Finish(q) /\ response' = VoteResponse(q, "ok")
  /\ UNCHANGED <<sessions, participants, sessionScenarios, votes, rationales,
                 circuitBreakers, now, sideVars, rtVars>>

----------------------------------------------------------------------------
(* Vote Ledger: RoomServiceEnhanced.submitVote (validate, sanitize, then a     *)
(* transaction: SELECT the existing vote, INSERT the rows, COMMIT)             *)

RSE_SubmitVote(sid, pid, scid, v, rat, mit) ==
  LET q == VoteReq("RoomServiceEnhanced.submitVote", "insert", sid, pid, scid, v,
                   sanitizeRationale(rat), sanitizeMitigation(mit), NULL)
  IN
  /\ VoteBudgetLeft /\ CanSuspend
  /\ IF v \notin VoteType
     THEN inflight' = inflight /\ response' = VoteResponse(q, "InvalidVote")
     ELSE IF VotesOf(sid, pid, scid) # {}
     THEN inflight' = inflight /\ response' = VoteResponse(q, "AlreadyVoted")
     ELSE inflight' = Suspend(q) /\ response' = NoResponse
  /\ UNCHANGED <<dbVars, circuitBreakers, now, sideVars, rtVars>>

RSE_SubmitVote_InsertCommit(q) ==
  /\ q \in Waiting /\ q.op = "RoomServiceEnhanced.submitVote" /\ q.pc = "insert"
  /\ inflight' = Finish(q)
  /\ IF VoteInsertable(q.sessionId, q.participantId, q.vote)
     THEN LET id == Cardinality(votes) + 1 IN
          /\ votes' = votes \cup {VoteRow(id, q.sessionId, q.participantId, q.scenarioId, q.vote)}
          /\ rationales' = IF Trim(q.rationale) # ""
                           THEN rationales \cup {[voteId |-> id, originalText |-> Trim(q.rationale)]}
                           ELSE rationales
          /\ mitigations' = IF Trim(q.mitigation) # ""
                            THEN mitigations \cup {[voteId |-> id, originalText |-> Trim(q.mitigation)]}
                            ELSE mitigations
          /\ response' = VoteResponse([q EXCEPT !.voteId = id], "ok")
     ELSE /\ UNCHANGED <<votes, rationales, mitigations>>
          /\ response' = VoteResponse(q, "StorageError")
  /\ UNCHANGED <<sessions, participants, sessionScenarios, circuitBreakers, now, sideVars, rtVars>>

----------------------------------------------------------------------------
(* Vote Ledger: getVoteSummary *)

(* SELECT vote, count ... GROUP BY vote over the rows of the pair; with       *)
(* leftJoin the rows counted are the joined ones: a vote without rationale     *)
(* once, a vote with rationales once per rationale row                         *)
JoinedCount(v, leftJoin) ==
  LET n == Cardinality({x \in rationales : x.voteId = v.id})
  IN IF leftJoin /\ n > 1 THEN n ELSE 1

RECURSIVE SumJoined(_, _)
SumJoined(rows, leftJoin) ==
  IF rows = {} THEN 0
  ELSE LET v == CHOOSE x \in rows : TRUE
       IN JoinedCount(v, leftJoin) + SumJoined(rows \ {v}, leftJoin)

voteResults(sid, scid, leftJoin) ==
  {[vote |-> g, count |-> SumJoined({v \in VotesFor(sid, scid) : v.vote = g}, leftJoin)] :
     g \in {v.vote : v \in VotesFor(sid, scid)}}

(* the forEach over the grouped rows *)
RECURSIVE Summarize(_, _)
Summarize(rows, summary) ==
  IF rows = {} THEN summary
  ELSE LET row == CHOOSE x \in rows : TRUE
           s1 == [summary EXCEPT !.totalVotes = @ + row.count]
           s2 == IF row.vote = "pull"
                 THEN [s1 EXCEPT !.pullVotes = row.count]
                 ELSE [s1 EXCEPT !.dontPullVotes = row.count]
       IN Summarize(rows \ {row}, s2)

EmptySummary == [totalVotes |-> 0, pullVotes |-> 0, dontPullVotes |-> 0]

SummaryResponse(op, sid, scid, summary) ==
  [op |-> op, sessionId |-> sid, scenarioId |-> scid, result |-> "ok", summary |-> summary]

RS_GetVoteSummary(sid, scid) ==
  /\ response' = SummaryResponse("RoomService.getVoteSummary", sid, scid,
                                 Summarize(voteResults(sid, scid, FALSE), EmptySummary))
  /\ UNCHANGED <<dbVars, circuitBreakers, now, sideVars, inflight, rtVars>>

(* ResilientDatabase.query(name, queryFn): the breaker of a name is built      *)
(* around the queryFn of the first call and kept in the map; every call fires  *)
(* the kept breaker, that is the closure captured then                         *)
BreakerNames == {"join-room", "vote-summary"}
NoBreaker == [set |-> FALSE, opened |-> FALSE]

BreakerAfter(name, closure) ==
  IF circuitBreakers[name].set THEN circuitBreakers
  ELSE [circuitBreakers EXCEPT ![name] = [set |-> TRUE, opened |-> FALSE, fn |-> closure]]

FiredClosure(name, closure) == BreakerAfter(name, closure)[name].fn

RSE_GetVoteSummary(sid, scid) ==
  LET fn == FiredClosure("vote-summary", [sessionId |-> sid, scenarioId |-> scid]) IN
  /\ circuitBreakers' = BreakerAfter("vote-summary", [sessionId |-> sid, scenarioId |-> scid])
  /\ response' = SummaryResponse("RoomServiceEnhanced.getVoteSummary", sid, scid,
                   Summarize(voteResults(fn.sessionId, fn.scenarioId, TRUE), EmptySummary))
  /\ UNCHANGED <<dbVars, now, sideVars, inflight, rtVars>>

----------------------------------------------------------------------------
(* Specification of the Vote Ledger: two rooms are open, two participants     *)
(* have joined the first one and one the second.  A client votes with the      *)
(* participant and session ids its join returned.                              *)

VoteCallers == {<<p.sessionId, p.id>> : p \in participants}

(* socket.data and the rooms of a socket that is not connected *)
NoSocketData ==
  [connected |-> FALSE, authenticated |-> FALSE, sessionId |-> NoSession, participantId |-> NULL,
   roomCode |-> "null", rooms |-> {}]

(* the inbound message whose handler ran in the step *)
NoMessage == [event |-> "none"]
Received(k, event, sid) == [socket |-> k, event |-> event, sessionId |-> sid]

NoSockets == [k \in Sockets |-> NoSocketData]

(* useGameStore after joinRoom: initialState with the session, the participant *)
(* and the current scenario set                                                *)
ClientIPs == {"10.0.0.1"}
RequestFingerprints == {"null", "fp1"}

(* getClientIdentifier: the address, with the fingerprint appended if sent *)
getClientIdentifier(ip, fingerprint) ==
  IF fingerprint # "null" THEN ip \o ":" \o fingerprint ELSE ip

Identifiers == {getClientIdentifier(ip, f) : ip \in ClientIPs, f \in RequestFingerprints}

LimitTypes == {"create_room", "sensitive"}

(* the addresses getClientIP(socket) returns *)
Origins == {"10.0.0.1", "10.0.0.2"}
DynamicLimit == "dynamic"

(* the execute calls made on the Bulkhead of the model *)
BulkheadCalls == 1..MaxCalls

InitSide ==
  /\ gameStore = [currentScenario |-> "A", hasVoted |-> FALSE, myVote |-> "null",
                  loading |-> FALSE, error |-> "null", myRationale |-> "",
                  voteSummary |-> "null", showResults |-> FALSE,
                  timerActive |-> FALSE, secondsRemaining |-> 0]
  /\ rateLimiters = [t \in LimitTypes |-> [k \in Identifiers |-> 0]]
  /\ handled = [t \in LimitTypes \cup {DynamicLimit} |-> [k \in Identifiers |-> 0]]
  /\ ipViolations = [ip \in ClientIPs |-> 0]
  /\ suspiciousIPs = {}
  /\ connectionAttempts = [ip \in Origins |-> 0]
  /\ blockedIPs = {}
  /\ mockSessions = {}
  /\ generated = [by |-> "none", code |-> <<>>]
  /\ storeIntervals = {}
  /\ bulkhead = [maxConcurrent |-> 0, running |-> 0, queue |-> <<>>,
                 calls |-> [c \in BulkheadCalls |-> "idle"]]

InitVote ==
  /\ now = 0
  /\ sessions = {SessionRow("s1", "AAAAAA", 2, 0), SessionRow("s2", "BBBBBB", 2, 0)}
  /\ participants = {ParticipantRow(1, "s1", "fp1"), ParticipantRow(2, "s1", "fp2"),
                     ParticipantRow(3, "s2", "fp1")}
  /\ sessionScenarios = {}
  /\ votes = {} /\ rationales = {} /\ mitigations = {}
  /\ circuitBreakers = [n \in BreakerNames |-> NoBreaker]
  /\ InitSide
  /\ inflight = EmptyBag /\ response = NoResponse
  /\ socketData = NoSockets /\ sessionTimers = {} /\ received = NoMessage /\ emitted = <<>>

NextVoteEnhanced ==
  \/ \E c \in VoteCallers, scid \in ScenarioIds, v \in VoteInputs, t \in TextInputs :
       RSE_SubmitVote(c[1], c[2], scid, v, t[1], t[2])
  \/ \E q \in Waiting : RSE_SubmitVote_InsertCommit(q)
  \/ \E sid \in SessionIds, scid \in ScenarioIds : RSE_GetVoteSummary(sid, scid)

NextVoteRS ==
  \/ \E c \in VoteCallers, scid \in ScenarioIds, v \in VoteInputs, t \in TextInputs :
       RS_SubmitVote(c[1], c[2], scid, v, t[1], t[2])
  \/ \E q \in Waiting : RS_SubmitVote_InsertRationale(q)
  \/ \E q \in Waiting : RS_SubmitVote_InsertMitigation(q)
  \/ \E sid \in SessionIds, scid \in ScenarioIds : RS_GetVoteSummary(sid, scid)

SpecVoteEnhanced == InitVote /\ [][NextVoteEnhanced]_vars
SpecVoteRS == InitVote /\ [][NextVoteRS]_vars

----------------------------------------------------------------------------
(* Claims on the Vote Ledger *)

SubmitOps == {"RoomService.submitVote", "RoomServiceEnhanced.submitVote"}
SummaryOps == {"RoomService.getVoteSummary", "RoomServiceEnhanced.getVoteSummary"}

SameTriple(v, w) ==
  /\ v.sessionId = w.sessionId
  /\ v.participantId = w.participantId
  /\ v.scenarioId = w.scenarioId

(* C1: submitVote calls for one (session, participant, scenario) triple that   *)
(* are processed concurrently leave at most one vote for the triple: a call    *)
(* that succeeds has stored the only vote of its triple (checked where every   *)
(* submission goes through the transaction of RoomServiceEnhanced.submitVote)  *)
C1_ConcurrentSubmitsOneSuccess ==
  /\ \A v, w \in votes : SameTriple(v, w) => v.id = w.id
  /\ (response.op \in SubmitOps /\ response.result = "ok")
       => \A w \in votes : SameTriple(response, w) => w.id = response.voteId

(* C2: a submitVote for a triple that already has a vote is rejected with the  *)
(* conflict error and leaves the stored votes as they were (checked on the     *)
(* RoomService the REST routes call)                                           *)
C2_SecondVoteRejected ==
  [][\A c \in VoteCallers, scid \in ScenarioIds, v \in VoteType, t \in TextInputs :
       (/\ VotesOf(c[1], c[2], scid) # {}
        /\ \/ RS_SubmitVote(c[1], c[2], scid, v, t[1], t[2])
           \/ RSE_SubmitVote(c[1], c[2], scid, v, t[1], t[2]))
       => (votes' = votes /\ response'.result = "AlreadyVoted")]_vars

(* C3: the tally getVoteSummary returns for a (session, scenario) pair has     *)
(* total = pull + dont_pull, and total is the number of vote rows of the pair  *)
C3_TallyMatchesVoteRows ==
  response.op \in SummaryOps =>
    /\ response.summary.totalVotes
         = response.summary.pullVotes + response.summary.dontPullVotes
    /\ response.summary.totalVotes
         = Cardinality(VotesFor(response.sessionId, response.scenarioId))

----------------------------------------------------------------------------
(* Room Registry: joinRoom.  Three implementations run the same statements:    *)
(*   RoomService.joinRoom          session, count, existing, write             *)
(*   RoomServiceEnhanced.joinRoom  the same inside a transaction run through   *)
(*                                 resilientDatabase.query('join-room', ...),  *)
(*                                 on sanitized arguments                      *)
(*   join-room.js handler          session, existing, write (no count)         *)

RS_Join == "RoomService.joinRoom"
RSE_Join == "RoomServiceEnhanced.joinRoom"
NF_Join == "join-room.handler"
JoinOps == {RS_Join, RSE_Join, NF_Join}

JoinCodes == RoomCodes \cup {"aaaaaa"}
Fingerprints == {"fp1", "fp2", "fp 1"}

(* input.replace(/[^A-Z0-9]/gi, '').toUpperCase().substring(0, 6) *)
sanitizeRoomCode(c) ==
  IF c = "aaaaaa" THEN "AAAAAA" ELSE IF c \in RoomCodes THEN c ELSE ""

(* input.replace(/[^A-Za-z0-9_-]/g, '').substring(0, 255) *)
sanitizeFingerprint(f) == IF f = "fp 1" THEN "fp1" ELSE f

JoinableStatus == {"waiting", "active"}


JoinableSession(code) ==
  {s \in sessions : s.roomCode = code /\ s.status \in JoinableStatus}

ActiveCount(sid) ==
  Cardinality({p \in participants : p.sessionId = sid /\ p.isActive})

ExistingParticipants(sid, fp) ==
  {p \in participants : p.sessionId = sid /\ p.fingerprint = fp}

(* roomCode, fingerprint: what the caller passed; fnRoomCode, fnFingerprint:   *)
(* what the statements that run are closed over                                *)
JoinReq(op, pc, code, fp, fnCode, fnFp, sid, maxP, existing) ==
  [op |-> op, pc |-> pc, roomCode |-> code, fingerprint |-> fp,
   fnRoomCode |-> fnCode, fnFingerprint |-> fnFp,
   sessionId |-> sid, maxParticipants |-> maxP, existing |-> existing]

JoinResponse(q, result, pid) ==
  [op |-> q.op, roomCode |-> q.roomCode, fingerprint |-> q.fingerprint,
   sessionId |-> q.sessionId, participantId |-> pid, result |-> result]

ParticipantBudgetLeft ==
  Cardinality(participants) + BagCardinality(inflight) < MaxParticipantRows

(* a statement of joinRoom throws: RoomService and the handler return the      *)
(* error; under the circuit breaker the failure is counted, the breaker opens  *)
(* when the failures of its rolling window pass the threshold, and query()     *)
(* then replaces the error by 'Database temporarily unavailable'               *)
JoinThrows(q, err, breakers) ==
  IF q.op = RSE_Join
  THEN \E opens \in BOOLEAN :
         /\ circuitBreakers' = [breakers EXCEPT !["join-room"].opened = opens]
         /\ response' = JoinResponse(q, IF opens THEN "Unavailable" ELSE err, NULL)
  ELSE /\ circuitBreakers' = breakers
       /\ response' = JoinResponse(q, err, NULL)

(* first statement: the session of the code, if it is waiting or active *)
JoinRoom_SelectSession(q, breakers) ==
  LET found == JoinableSession(q.fnRoomCode) IN
  /\ IF found = {}
     THEN inflight' = inflight /\ JoinThrows(q, "NotFound", breakers)
     ELSE \E s \in found :
            /\ inflight' = Suspend([q EXCEPT !.sessionId = s.id,
                                             !.maxParticipants = s.maxParticipants])
            /\ circuitBreakers' = breakers
            /\ response' = NoResponse
  /\ UNCHANGED <<dbVars, now, sideVars, rtVars>>

RS_JoinRoom(code, fp) ==
  /\ ParticipantBudgetLeft /\ CanSuspend
  /\ JoinRoom_SelectSession(JoinReq(RS_Join, "count", code, fp, code, fp, NoSession, NULL, NULL),
                            circuitBreakers)

NF_JoinRoom(code, fp) ==
  /\ ParticipantBudgetLeft /\ CanSuspend
  /\ JoinRoom_SelectSession(JoinReq(NF_Join, "existing", code, fp, code, fp, NoSession, NULL, NULL),
                            circuitBreakers)

RSE_JoinRoom(code, fp) ==
  LET mine == [roomCode |-> sanitizeRoomCode(code), fingerprint |-> sanitizeFingerprint(fp)]
      fn == FiredClosure("join-room", mine)
      q == JoinReq(RSE_Join, "count", code, fp, fn.roomCode, fn.fingerprint, NoSession, NULL, NULL)
  IN
  /\ ParticipantBudgetLeft /\ CanSuspend
  /\ IF mine.roomCode = "" \/ mine.fingerprint = ""
     THEN /\ response' = JoinResponse(q, "InvalidInput", NULL)
          /\ UNCHANGED <<dbVars, circuitBreakers, now, sideVars, inflight, rtVars>>
     ELSE IF circuitBreakers["join-room"].opened
     THEN /\ response' = JoinResponse(q, "Unavailable", NULL)
          /\ UNCHANGED <<dbVars, circuitBreakers, now, sideVars, inflight, rtVars>>
     ELSE JoinRoom_SelectSession(q, BreakerAfter("join-room", mine))

(* second statement: count of the active participants against the capacity *)
JoinRoom_Count(q) ==
  /\ q \in Waiting /\ q.op \in JoinOps /\ q.pc = "count"
  /\ IF ActiveCount(q.sessionId) >= q.maxParticipants
     THEN inflight' = Finish(q) /\ JoinThrows(q, "Full", circuitBreakers)
     ELSE /\ inflight' = Resume(q, [q EXCEPT !.pc = "existing"])
          /\ circuitBreakers' = circuitBreakers
          /\ response' = NoResponse
  /\ UNCHANGED <<dbVars, now, sideVars, rtVars>>

(* third statement: a participant of the session with the fingerprint; of      *)
(* several rows the first of an unordered SELECT is taken                      *)
JoinRoom_Existing(q) ==
  LET found == ExistingParticipants(q.sessionId, q.fnFingerprint) IN
  /\ q \in Waiting /\ q.op \in JoinOps /\ q.pc = "existing"
  /\ \E e \in IF found = {} THEN {NULL} ELSE {p.id : p \in found} :
       inflight' = Resume(q, [q EXCEPT !.pc = "write", !.existing = e])
  /\ response' = NoResponse
  /\ UNCHANGED <<dbVars, circuitBreakers, now, sideVars, rtVars>>

(* last statement: reactivate the participant found, or insert a new one *)
JoinRoom_Write(q) ==
  LET id == Cardinality(participants) + 1 IN
  /\ q \in Waiting /\ q.op \in JoinOps /\ q.pc = "write"
  /\ inflight' = Finish(q)
  /\ IF q.existing # NULL
     THEN /\ participants' = {IF p.id = q.existing
                                THEN [p EXCEPT !.isActive = TRUE, !.joinedAt = now] ELSE p :
                                p \in participants}
          /\ response' = JoinResponse(q, "ok", q.existing)
     ELSE /\ participants' = participants \cup {ParticipantRow(id, q.sessionId, q.fnFingerprint)}
          /\ response' = JoinResponse(q, "ok", id)
  /\ UNCHANGED <<sessions, sessionScenarios, votes, rationales, mitigations,
                 circuitBreakers, now, sideVars, rtVars>>

(* resetTimeout has passed: the breaker lets calls through again *)
BreakerReset(name) ==
  /\ circuitBreakers[name].opened
  /\ circuitBreakers' = [circuitBreakers EXCEPT ![name].opened = FALSE]
  /\ response' = NoResponse
  /\ UNCHANGED <<dbVars, now, sideVars, inflight, rtVars>>

----------------------------------------------------------------------------
(* Room Registry: endSession *)

EndResponse(op, sid) == [op |-> op, sessionId |-> sid, result |-> "ok"]

EndedSessions(sid) ==
  {IF s.id = sid THEN [s EXCEPT !.status = "complete", !.endedAt = now] ELSE s : s \in sessions}

(* RoomService.endSession: one UPDATE of the session row, whatever its status *)
RS_EndSession(sid) ==
  /\ sessions' = EndedSessions(sid)
  /\ response' = EndResponse("RoomService.endSession", sid)
  /\ UNCHANGED <<participants, sessionScenarios, votes, rationales, mitigations,
                 circuitBreakers, now, sideVars, inflight, rtVars>>

(* RoomServiceEnhanced.endSession: a transaction of three UPDATEs issued one   *)
(* after the other: the session, its participants, its scenarios               *)
RSE_EndSession(sid) ==
  /\ sessions' = EndedSessions(sid)
  /\ participants' = {IF p.sessionId = sid THEN [p EXCEPT !.isActive = FALSE] ELSE p :
                        p \in participants}
  /\ sessionScenarios' = {IF x.sessionId = sid THEN [x EXCEPT !.status = "complete"] ELSE x :
                            x \in sessionScenarios}
  /\ response' = EndResponse("RoomServiceEnhanced.endSession", sid)
  /\ UNCHANGED <<votes, rationales, mitigations, circuitBreakers, now, sideVars, inflight, rtVars>>

----------------------------------------------------------------------------
(* Specifications of joining: two rooms are open, one for a single             *)
(* participant and one for two, and nobody has joined yet                      *)

InitJoin ==
  /\ sessions = {SessionRow("s1", "AAAAAA", 1, 0), SessionRow("s2", "BBBBBB", 2, 0)}
  /\ participants = {}
  /\ sessionScenarios = {}
  /\ votes = {} /\ rationales = {} /\ mitigations = {}
  /\ circuitBreakers = [n \in BreakerNames |-> NoBreaker]
  /\ now = 0 /\ InitSide
  /\ inflight = EmptyBag /\ response = NoResponse
  /\ socketData = NoSockets /\ sessionTimers = {} /\ received = NoMessage /\ emitted = <<>>

NextJoinRS ==
  \/ \E code \in JoinCodes, fp \in Fingerprints : RS_JoinRoom(code, fp)
  \/ \E q \in Waiting : JoinRoom_Count(q)
  \/ \E q \in Waiting : JoinRoom_Existing(q)
  \/ \E q \in Waiting : JoinRoom_Write(q)
  \/ \E sid \in SessionIds : RS_EndSession(sid)

NextJoinEnhanced ==
  \/ \E code \in JoinCodes, fp \in Fingerprints : RSE_JoinRoom(code, fp)
  \/ \E q \in Waiting : JoinRoom_Count(q)
  \/ \E q \in Waiting : JoinRoom_Existing(q)
  \/ \E q \in Waiting : JoinRoom_Write(q)
  \/ \E sid \in SessionIds : RSE_EndSession(sid)
  \/ BreakerReset("join-room")

NextJoinHandler ==
  \/ \E code \in JoinCodes, fp \in Fingerprints : NF_JoinRoom(code, fp)
  \/ \E q \in Waiting : JoinRoom_Existing(q)
  \/ \E q \in Waiting : JoinRoom_Write(q)

(* RoomService with its requests served one after the other *)
NextJoinRSSerial ==
  \/ \E code \in JoinCodes, fp \in Fingerprints : inflight = EmptyBag /\ RS_JoinRoom(code, fp)
  \/ \E q \in Waiting : JoinRoom_Count(q)
  \/ \E q \in Waiting : JoinRoom_Existing(q)
  \/ \E q \in Waiting : JoinRoom_Write(q)
  \/ \E sid \in SessionIds : inflight = EmptyBag /\ RS_EndSession(sid)

SpecJoinRS == InitJoin /\ [][NextJoinRS]_vars
SpecJoinRSSerial == InitJoin /\ [][NextJoinRSSerial]_vars
SpecJoinEnhanced == InitJoin /\ [][NextJoinEnhanced]_vars
SpecJoinHandler == InitJoin /\ [][NextJoinHandler]_vars

----------------------------------------------------------------------------
(* Claims on joinRoom *)

SessionOf(sid) == CHOOSE s \in sessions : s.id = sid

(* C6: a joinRoom that ends while the active participants of its session have  *)
(* reached the configured capacity returns Full and leaves the participants    *)
(* as they were (checked on the join-room handler)                             *)
C6_FullRoomRejectsJoin ==
  [][(/\ response'.op \in JoinOps
      /\ response'.sessionId \in SessionIds
      /\ ActiveCount(response'.sessionId) >= SessionOf(response'.sessionId).maxParticipants)
     => (response'.result = "Full" /\ participants' = participants)]_vars

(* C7: a session never holds two participant records with one fingerprint,     *)
(* also when joinRoom calls overlap                                            *)
C7_OneParticipantPerFingerprint ==
  \A p, r \in participants :
    (p.sessionId = r.sessionId /\ p.fingerprint = r.fingerprint) => p.id = r.id

(* C8: a joinRoom that runs alone, for a fingerprint that already has a        *)
(* participant record in the session and while the session is waiting or       *)
(* active, succeeds and returns that record, active                            *)
C8_RejoinIdempotent ==
  [][(/\ response'.op \in JoinOps
      /\ BagCardinality(inflight) = 1
      /\ response'.sessionId \in SessionIds
      /\ SessionOf(response'.sessionId).status \in JoinableStatus
      /\ ExistingParticipants(response'.sessionId, response'.fingerprint) # {})
     => (/\ response'.result = "ok"
         /\ participants' = {IF p.id = response'.participantId
                             THEN [p EXCEPT !.isActive = TRUE] ELSE p : p \in participants}
         /\ \E p \in ExistingParticipants(response'.sessionId, response'.fingerprint) :
              p.id = response'.participantId)]_vars

EndedRoom(code) ==
  \E s \in sessions : s.roomCode = code /\ s.status \in {"complete", "cancelled"}

(* C9: a joinRoom called with the code of a room whose session is complete or  *)
(* cancelled is rejected at once: it returns an error, starts no work on any   *)
(* participant and changes none                                                *)
C9_EndedRoomRejectsJoin ==
  [][\A code \in RoomCodes, fp \in Fingerprints :
       (/\ EndedRoom(code)
        /\ \/ RS_JoinRoom(code, fp)
           \/ RSE_JoinRoom(code, fp)
           \/ NF_JoinRoom(code, fp))
       => (/\ response'.op \in JoinOps /\ response'.result # "ok"
           /\ inflight' = inflight
           /\ participants' = participants)]_vars

----------------------------------------------------------------------------
(* Room Registry: createRoom, startScenario, the staleness sweep.              *)
(* The clock counts days.                                                      *)

CapacityInputs == {1, 2}

(* RoomService.createRoom: a random code, one INSERT; room_code is UNIQUE *)
RS_CreateRoom(id, code, maxP) ==
  /\ \A s \in sessions : s.id # id
  /\ IF \E s \in sessions : s.roomCode = code
     THEN /\ sessions' = sessions
          /\ response' = [op |-> "RoomService.createRoom", result |-> "StorageError"]
     ELSE /\ sessions' = sessions \cup {SessionRow(id, code, maxP, now)}
          /\ response' = [op |-> "RoomService.createRoom", result |-> "ok",
                          sessionId |-> id, roomCode |-> code]
  /\ UNCHANGED <<participants, sessionScenarios, votes, rationales, mitigations,
                 circuitBreakers, now, sideVars, inflight, rtVars>>

ScenarioRow(id, sid, scid) ==
  [id |-> id, sessionId |-> sid, scenarioId |-> scid, status |-> "active"]

ScenarioBudgetLeft ==
  Cardinality(sessionScenarios) + BagCardinality(inflight) < MaxScenarioRows

StartReq(pc, sid, scid) ==
  [op |-> "RoomService.startScenario", pc |-> pc, sessionId |-> sid, scenarioId |-> scid]

(* RoomService.startScenario, first statement: the active records of the       *)
(* session become complete                                                     *)
RS_StartScenario(sid, scid) ==
  /\ ScenarioBudgetLeft /\ CanSuspend
  /\ sessionScenarios' = {IF x.sessionId = sid /\ x.status = "active"
                          THEN [x EXCEPT !.status = "complete"] ELSE x : x \in sessionScenarios}
  /\ inflight' = Suspend(StartReq("insert", sid, scid))
  /\ response' = NoResponse
  /\ UNCHANGED <<sessions, participants, votes, rationales, mitigations,
                 circuitBreakers, now, sideVars, rtVars>>

(* second statement: the new active record; session_id REFERENCES sessions *)
RS_StartScenario_Insert(q) ==
  LET id == Cardinality(sessionScenarios) + 1 IN
  /\ q \in Waiting /\ q.op = "RoomService.startScenario" /\ q.pc = "insert"
  /\ inflight' = Finish(q)
  /\ IF \E s \in sessions : s.id = q.sessionId
     THEN /\ sessionScenarios' = sessionScenarios \cup {ScenarioRow(id, q.sessionId, q.scenarioId)}
          /\ response' = [op |-> q.op, sessionId |-> q.sessionId, scenarioId |-> q.scenarioId,
                          result |-> "ok"]
     ELSE /\ sessionScenarios' = sessionScenarios
          /\ response' = [op |-> q.op, sessionId |-> q.sessionId, scenarioId |-> q.scenarioId,
                          result |-> "StorageError"]
  /\ UNCHANGED <<sessions, participants, votes, rationales, mitigations,
                 circuitBreakers, now, sideVars, rtVars>>

(* 24 * 60 * 60 * 1000 ms *)
StaleAfterDays == 1

StaleSessions ==
  {s.id : s \in {x \in sessions : x.status \in JoinableStatus /\ x.createdAt < now - StaleAfterDays}}

CleanupResponse(n) == [op |-> "RoomServiceEnhanced.cleanupStaleSessions", result |-> n]

(* cleanupStaleSessions, first statement of the transaction: the stale ids *)
RSE_CleanupStaleSessions ==
  /\ IF StaleSessions = {}
     THEN inflight' = inflight /\ response' = CleanupResponse(0)
     ELSE /\ CanSuspend
          /\ inflight' = Suspend([op |-> "RoomServiceEnhanced.cleanupStaleSessions",
                                  pc |-> "update", sessionIds |-> StaleSessions])
          /\ response' = NoResponse
  /\ UNCHANGED <<dbVars, circuitBreakers, now, sideVars, rtVars>>

(* the two UPDATEs WHERE id / session_id IN (the ids selected) and the COMMIT *)
RSE_CleanupStaleSessions_Update(q) ==
  /\ q \in Waiting /\ q.op = "RoomServiceEnhanced.cleanupStaleSessions" /\ q.pc = "update"
  /\ sessions' = {IF s.id \in q.sessionIds
                  THEN [s EXCEPT !.status = "cancelled", !.endedAt = now] ELSE s : s \in sessions}
  /\ participants' = {IF p.sessionId \in q.sessionIds
                      THEN [p EXCEPT !.isActive = FALSE] ELSE p : p \in participants}
  /\ inflight' = Finish(q)
  /\ response' = CleanupResponse(Cardinality(q.sessionIds))
  /\ UNCHANGED <<sessionScenarios, votes, rationales, mitigations, circuitBreakers, now, sideVars, rtVars>>

(* a day passes *)
Tick ==
  /\ now < MaxClock
  /\ now' = now + 1
  /\ response' = NoResponse
  /\ UNCHANGED <<dbVars, circuitBreakers, inflight, rtVars, sideVars>>

----------------------------------------------------------------------------
(* Specification of the life of a session: rooms are created, sessions ended   *)
(* by either service, and the sweep runs                                       *)

InitLifecycle ==
  /\ sessions = {} /\ participants = {} /\ sessionScenarios = {}
  /\ votes = {} /\ rationales = {} /\ mitigations = {}
  /\ circuitBreakers = [n \in BreakerNames |-> NoBreaker]
  /\ now = 0 /\ InitSide
  /\ inflight = EmptyBag /\ response = NoResponse
  /\ socketData = NoSockets /\ sessionTimers = {} /\ received = NoMessage /\ emitted = <<>>

NextLifecycle ==
  \/ \E id \in SessionIds, code \in RoomCodes, maxP \in CapacityInputs :
       RS_CreateRoom(id, code, maxP)
  \/ \E sid \in SessionIds : RS_EndSession(sid)
  \/ \E sid \in SessionIds : RSE_EndSession(sid)
  \/ RSE_CleanupStaleSessions
  \/ \E q \in Waiting : RSE_CleanupStaleSessions_Update(q)
  \/ Tick

SpecLifecycle == InitLifecycle /\ [][NextLifecycle]_vars

(* Specification of the scenarios of two open rooms: scenarios are started     *)
(* and the sessions ended                                                      *)
NextScenario ==
  \/ \E sid \in SessionIds, scid \in ScenarioIds : RS_StartScenario(sid, scid)
  \/ \E q \in Waiting : RS_StartScenario_Insert(q)
  \/ \E sid \in SessionIds : RSE_EndSession(sid)

SpecScenario == InitJoin /\ [][NextScenario]_vars

(* C5: a session never has two scenario-in-session records that are active,    *)
(* also while startScenario calls for it overlap                               *)
C5_OneActiveScenario ==
  \A x, y \in sessionScenarios :
    (x.sessionId = y.sessionId /\ x.status = "active" /\ y.status = "active") => x.id = y.id

(* C10: a session that is complete or cancelled keeps that status in every     *)
(* step, whatever the operation                                                *)
C10_TerminalStatus ==
  [][\A s \in sessions : s.status \in {"complete", "cancelled"} =>
       \E t \in sessions' : t.id = s.id /\ t.status = s.status]_vars

----------------------------------------------------------------------------
(* Broadcast Hub and Timer Coordinator: RealtimeService (the service the REST  *)
(* routes are wired to).  `emitted` holds what the last step emitted.          *)

DurationInputs == {0, 2}
DecisionInputs == {"tie", "bogus"}
(* <<pullCount, dontPullCount, totalVotes>> as a client sends them *)
CountInputs == {<<1, 0, 1>>, <<-1, 2, 5>>}
TitleInputs == {"<b>why</b>"}

ToRoom(sid) == <<"room", sid>>
ToSocket(k) == <<"socket", k>>

Emit(to, event, payload) ==
  <<[to |-> to, event |-> event, payload |-> payload, volatile |-> FALSE]>>

(* volatile.emit: the packet is discarded for a client whose transport is not  *)
(* ready to send                                                               *)
EmitVolatile(to, event, payload) ==
  <<[to |-> to, event |-> event, payload |-> payload, volatile |-> TRUE]>>

(* RoomService.getActiveParticipantCount *)
getActiveParticipantCount(sid) == ActiveCount(sid)

TimerOf(sid, scid) ==
  {t \in sessionTimers : t.sessionId = sid /\ t.scenarioId = scid}

(* the Timeout object setInterval returns: distinct from every live one *)
NewTimerHandle ==
  1 + Cardinality({h \in 1..MaxTimerHandles : \E t \in sessionTimers : t.handle >= h})

(* a timer may be started when its key is running already or a slot is free *)
TimerSlotFree(sid, scid) ==
  /\ TimerOf(sid, scid) # {} \/ Cardinality(sessionTimers) < MaxTimers
  /\ NewTimerHandle <= MaxTimerHandles

(* setInterval without the clearInterval of the timer the key already has *)
startTimer_NoClear(sid, scid, duration) ==
  /\ sessionTimers' = sessionTimers
                        \cup {[sessionId |-> sid, scenarioId |-> scid,
                               secondsRemaining |-> duration, handle |-> NewTimerHandle]}
  /\ emitted' = Emit(ToRoom(sid), "timer_started",
                     [session_id |-> sid, scenario_id |-> scid, duration |-> duration])

(* clearInterval of the timer of the key, timer_started, setInterval, set *)
startTimer(sid, scid, duration) ==
  /\ sessionTimers' = (sessionTimers \ TimerOf(sid, scid))
                        \cup {[sessionId |-> sid, scenarioId |-> scid,
                               secondsRemaining |-> duration, handle |-> NewTimerHandle]}
  /\ emitted' = Emit(ToRoom(sid), "timer_started",
                     [session_id |-> sid, scenario_id |-> scid, duration |-> duration])

(* the key of a timer in the map: `${sessionId}-${scenarioId}` *)
TimerKey(t) == t.sessionId \o "-" \o t.scenarioId

(* what may follow a prefix of a session id of the model within a key *)
KeyRests == {tail \o "-" \o scid : tail \in {"", "1", "2"}, scid \in ScenarioIds}

(* String.prototype.startsWith on the keys of the timer map *)
StartsWith(key, prefix) == \E rest \in KeyRests : key = prefix \o rest

(* the timers whose key starts with the session id are cleared and deleted *)
clearSessionTimers(sid) == {t \in sessionTimers : ~StartsWith(TimerKey(t), sid)}

(* the sessionId of an end_session message of RealtimeService: any string *)
EndSessionInputs == SessionIds \cup {"s"}

RT_Connect(k) ==
  /\ ~socketData[k].connected
  /\ received' = Received(k, "connect", NoSession)
  /\ socketData' = [socketData EXCEPT ![k] = [NoSocketData EXCEPT !.connected = TRUE]]
  /\ emitted' = <<>>
  /\ UNCHANGED <<dbVars, circuitBreakers, now, sideVars, reqVars, sessionTimers>>

RT_JoinRoom(k, sid, pid) ==
  /\ socketData[k].connected
  /\ received' = Received(k, "join_room", sid)
  /\ socketData' = [socketData EXCEPT ![k].rooms = @ \cup {sid},
                                      ![k].sessionId = sid, ![k].participantId = pid]
  /\ emitted' = Emit(ToRoom(sid), "participant_joined",
                     [participant_id |-> pid, room_code |-> sid,
                      active_count |-> getActiveParticipantCount(sid)])
  /\ UNCHANGED <<dbVars, circuitBreakers, now, sideVars, reqVars, sessionTimers>>

RT_LeaveRoom(k) ==
  LET d == socketData[k] IN
  /\ d.connected
  /\ received' = Received(k, "leave_room", NoSession)
  /\ IF d.sessionId # NoSession /\ d.participantId # NULL
     THEN /\ socketData' = [socketData EXCEPT ![k].rooms = @ \ {d.sessionId}]
          /\ emitted' = Emit(ToRoom(d.sessionId), "participant_left",
                             [participant_id |-> d.participantId, room_code |-> d.sessionId,
                              active_count |-> getActiveParticipantCount(d.sessionId)])
     ELSE socketData' = socketData /\ emitted' = <<>>
  /\ UNCHANGED <<dbVars, circuitBreakers, now, sideVars, reqVars, sessionTimers>>

RT_StartTimer(k, sid, scid, duration) ==
  /\ socketData[k].connected
  /\ received' = Received(k, "start_timer", sid)
  /\ TimerSlotFree(sid, scid)
  /\ startTimer(sid, scid, duration)
  /\ UNCHANGED <<dbVars, circuitBreakers, now, sideVars, reqVars, socketData>>

RT_StartScenario(k, sid, scid, title) ==
  /\ socketData[k].connected
  /\ received' = Received(k, "start_scenario", sid)
  /\ emitted' = Emit(ToRoom(sid), "scenario_started",
                     [session_id |-> sid, scenario_id |-> scid, scenario_title |-> title])
  /\ UNCHANGED <<dbVars, circuitBreakers, now, sideVars, reqVars, socketData, sessionTimers>>

RT_AnnounceDecision(k, sid, scid, decision, counts) ==
  /\ socketData[k].connected
  /\ received' = Received(k, "announce_decision", sid)
  /\ emitted' = Emit(ToRoom(sid), "decision_announced",
                     [session_id |-> sid, scenario_id |-> scid, decision |-> decision,
                      pull_count |-> counts[1], dont_pull_count |-> counts[2],
                      total_votes |-> counts[3]])
  /\ UNCHANGED <<dbVars, circuitBreakers, now, sideVars, reqVars, socketData, sessionTimers>>

RT_EndSession(k, sid, code) ==
  /\ socketData[k].connected
  /\ received' = Received(k, "end_session", sid)
  /\ sessionTimers' = clearSessionTimers(sid)
  /\ emitted' = Emit(ToRoom(sid), "session_ended", [session_id |-> sid, room_code |-> code])
  /\ UNCHANGED <<dbVars, circuitBreakers, now, sideVars, reqVars, socketData>>

RT_Disconnect(k) ==
  LET d == socketData[k] IN
  /\ d.connected
  /\ received' = Received(k, "disconnect", NoSession)
  /\ socketData' = [socketData EXCEPT ![k] = NoSocketData]
  /\ emitted' = IF d.sessionId # NoSession /\ d.participantId # NULL
                THEN Emit(ToRoom(d.sessionId), "participant_left",
                          [participant_id |-> d.participantId, room_code |-> d.sessionId,
                           active_count |-> getActiveParticipantCount(d.sessionId)])
                ELSE <<>>
  /\ UNCHANGED <<dbVars, circuitBreakers, now, sideVars, reqVars, sessionTimers>>

(* the setInterval callback of a timer, once a second *)
TimerTick(t) ==
  LET left == t.secondsRemaining - 1 IN
  /\ t \in sessionTimers
  /\ received' = NoMessage
  /\ emitted' = Emit(ToRoom(t.sessionId), "timer_tick",
                     [session_id |-> t.sessionId, scenario_id |-> t.scenarioId,
                      seconds_remaining |-> left])
  /\ sessionTimers' = IF left <= 0 THEN sessionTimers \ {t}
                      ELSE (sessionTimers \ {t}) \cup {[t EXCEPT !.secondsRemaining = left]}
  /\ UNCHANGED <<dbVars, circuitBreakers, now, sideVars, reqVars, socketData>>

(* what a client sends in join_room: the ids its joinRoom returned *)
JoinData == {<<p.sessionId, p.id>> : p \in participants}

NextRealtime ==
  \/ \E k \in Sockets : RT_Connect(k)
  \/ \E k \in Sockets, c \in JoinData : RT_JoinRoom(k, c[1], c[2])
  \/ \E k \in Sockets : RT_LeaveRoom(k)
  \/ \E k \in Sockets, sid \in SessionIds, scid \in ScenarioIds, d \in DurationInputs :
       RT_StartTimer(k, sid, scid, d)
  \/ \E k \in Sockets, sid \in SessionIds, scid \in ScenarioIds, title \in TitleInputs :
       RT_StartScenario(k, sid, scid, title)
  \/ \E k \in Sockets, sid \in SessionIds, scid \in ScenarioIds,
        decision \in DecisionInputs, counts \in CountInputs :
       RT_AnnounceDecision(k, sid, scid, decision, counts)
  \/ \E k \in Sockets, sid \in EndSessionInputs, code \in RoomCodes :
       RT_EndSession(k, sid, code)
  \/ \E k \in Sockets : RT_Disconnect(k)
  \/ \E t \in sessionTimers : TimerTick(t)

SpecRealtime == InitVote /\ [][NextRealtime]_vars

----------------------------------------------------------------------------
(* RealtimeServiceSecure: the handlers of the state-mutating messages.  The    *)
(* socket carries the session of the token it connected with.                  *)

SecureDurationInputs == {9, 10, 301}
MinTimerDuration == 10
MaxTimerDuration == 300

SocketError(k, message) == Emit(ToSocket(k), "error", [message |-> message])

Max0(n) == IF n > 0 THEN n ELSE 0

RTS_StartTimer(k, sid, scid, duration) ==
  /\ socketData[k].connected
  /\ received' = Received(k, "start_timer", sid)
  /\ IF sid # socketData[k].sessionId
     THEN emitted' = SocketError(k, "Unauthorized action") /\ sessionTimers' = sessionTimers
     ELSE IF duration < MinTimerDuration \/ duration > MaxTimerDuration
     THEN emitted' = SocketError(k, "Invalid timer duration") /\ sessionTimers' = sessionTimers
     ELSE TimerSlotFree(sid, scid) /\ startTimer(sid, scid, duration)
  /\ UNCHANGED <<dbVars, circuitBreakers, now, sideVars, reqVars, socketData>>

RTS_StartScenario(k, sid, scid, title) ==
  /\ socketData[k].connected
  /\ received' = Received(k, "start_scenario", sid)
  /\ IF sid # socketData[k].sessionId
     THEN emitted' = SocketError(k, "Unauthorized action")
     ELSE emitted' = Emit(ToRoom(sid), "scenario_started",
                          [session_id |-> sid, scenario_id |-> scid,
                           scenario_title |-> sanitizeText(title)])
  /\ UNCHANGED <<dbVars, circuitBreakers, now, sideVars, reqVars, socketData, sessionTimers>>

RTS_AnnounceDecision(k, sid, scid, decision, counts) ==
  /\ socketData[k].connected
  /\ received' = Received(k, "announce_decision", sid)
  /\ IF sid # socketData[k].sessionId
     THEN emitted' = SocketError(k, "Unauthorized action")
     ELSE IF decision \notin {"ai_track", "non_ai_track", "tie"}
     THEN emitted' = SocketError(k, "Invalid decision value")
     ELSE emitted' = Emit(ToRoom(sid), "decision_announced",
                          [session_id |-> sid, scenario_id |-> scid, decision |-> decision,
                           pull_count |-> Max0(counts[1]), dont_pull_count |-> Max0(counts[2]),
                           total_votes |-> Max0(counts[3])])
  /\ UNCHANGED <<dbVars, circuitBreakers, now, sideVars, reqVars, socketData, sessionTimers>>

RTS_EndSession(k, sid, code) ==
  /\ socketData[k].connected
  /\ received' = Received(k, "end_session", sid)
  /\ IF sid # socketData[k].sessionId
     THEN emitted' = SocketError(k, "Unauthorized action") /\ sessionTimers' = sessionTimers
     ELSE /\ sessionTimers' = clearSessionTimers(sid)
          /\ emitted' = Emit(ToRoom(sid), "session_ended",
                             [session_id |-> sid, room_code |-> sanitizeRoomCode(code)])
  /\ UNCHANGED <<dbVars, circuitBreakers, now, sideVars, reqVars, socketData>>

(* the callback without the clearInterval and delete at expiry *)
RTS_TimerTick_KeepsRunning(t) ==
  LET left == t.secondsRemaining - 1 IN
  /\ t \in sessionTimers
  /\ left >= -1
  /\ received' = NoMessage
  /\ emitted' = EmitVolatile(ToRoom(t.sessionId), "timer_tick",
                     [session_id |-> t.sessionId, scenario_id |-> t.scenarioId,
                      seconds_remaining |-> left])
  /\ sessionTimers' = (sessionTimers \ {t}) \cup {[t EXCEPT !.secondsRemaining = left]}
  /\ UNCHANGED <<dbVars, circuitBreakers, now, sideVars, reqVars, socketData>>

(* the setInterval callback of startTimer, once a second *)
RTS_TimerTick(t) ==
  LET left == t.secondsRemaining - 1 IN
  /\ t \in sessionTimers
  /\ received' = NoMessage
  /\ emitted' = EmitVolatile(ToRoom(t.sessionId), "timer_tick",
                             [session_id |-> t.sessionId, scenario_id |-> t.scenarioId,
                              seconds_remaining |-> left])
  /\ sessionTimers' = IF left <= 0 THEN sessionTimers \ {t}
                      ELSE (sessionTimers \ {t}) \cup {[t EXCEPT !.secondsRemaining = left]}
  /\ UNCHANGED <<dbVars, circuitBreakers, now, sideVars, reqVars, socketData>>

(* socket.data after the authentication middleware accepted the token *)
Authenticated(sid, pid, code) ==
  [connected |-> TRUE, authenticated |-> TRUE, sessionId |-> sid, participantId |-> pid,
   roomCode |-> code, rooms |-> {sid}]

(* two clients are connected, each with the token of its own session *)
InitRealtimeSecure ==
  /\ now = 0
  /\ sessions = {SessionRow("s1", "AAAAAA", 2, 0), SessionRow("s2", "BBBBBB", 2, 0)}
  /\ participants = {ParticipantRow(1, "s1", "fp1"), ParticipantRow(2, "s1", "fp2"),
                     ParticipantRow(3, "s2", "fp1")}
  /\ sessionScenarios = {}
  /\ votes = {} /\ rationales = {} /\ mitigations = {}
  /\ circuitBreakers = [n \in BreakerNames |-> NoBreaker]
  /\ InitSide
  /\ inflight = EmptyBag /\ response = NoResponse
  /\ socketData = [k \in Sockets |-> IF k = "k1" THEN Authenticated("s1", 1, "AAAAAA")
                                     ELSE Authenticated("s2", 3, "BBBBBB")]
  /\ sessionTimers = {} /\ received = NoMessage /\ emitted = <<>>

NextRealtimeSecure ==
  \/ \E k \in Sockets, sid \in SessionIds, scid \in ScenarioIds, d \in SecureDurationInputs :
       RTS_StartTimer(k, sid, scid, d)
  \/ \E k \in Sockets, sid \in SessionIds, scid \in ScenarioIds, title \in TitleInputs :
       RTS_StartScenario(k, sid, scid, title)
  \/ \E k \in Sockets, sid \in SessionIds, scid \in ScenarioIds,
        decision \in DecisionInputs, counts \in CountInputs :
       RTS_AnnounceDecision(k, sid, scid, decision, counts)
  \/ \E k \in Sockets, sid \in SessionIds, code \in JoinCodes : RTS_EndSession(k, sid, code)
  \/ \E t \in sessionTimers : RTS_TimerTick(t)

SpecRealtimeSecure == InitRealtimeSecure /\ [][NextRealtimeSecure]_vars

----------------------------------------------------------------------------
(* Claims on the realtime messages *)

MutatingEvents == {"start_timer", "start_scenario", "announce_decision", "end_session"}

(* C4: a start_timer, start_scenario, announce_decision or end_session message *)
(* whose target session is not the session of the sending socket changes no    *)
(* timer, broadcasts nothing and is answered with the Unauthorized action      *)
(* error on that socket                                                        *)
C4_OnlyOwnSessionMessages ==
  [][(/\ received'.event \in MutatingEvents
      /\ socketData[received'.socket].sessionId # received'.sessionId)
     => (/\ sessionTimers' = sessionTimers
         /\ emitted' = SocketError(received'.socket, "Unauthorized action"))]_vars

----------------------------------------------------------------------------
(* Claims on the life of a session *)

EndOps == {"RoomService.endSession", "RoomServiceEnhanced.endSession"}
SweepOp == "RoomServiceEnhanced.cleanupStaleSessions"

(* C11: in every step a session keeps its status or moves waiting -> active,   *)
(* active -> complete, or, in a step of the staleness sweep, from waiting or   *)
(* active to cancelled; a session that appears is waiting                      *)
C11_SessionStateMachine ==
  [][/\ \A s \in sessions : \E t \in sessions' :
          /\ t.id = s.id
          /\ \/ t.status = s.status
             \/ s.status = "waiting" /\ t.status = "active"
             \/ s.status = "active" /\ t.status = "complete"
             \/ /\ s.status \in {"waiting", "active"} /\ t.status = "cancelled"
                /\ response'.op = SweepOp
     /\ \A t \in sessions' :
          (\A s \in sessions : s.id # t.id) => t.status = "waiting"]_vars

(* C12: when endSession has returned successfully the session is complete,     *)
(* none of its participants is active and none of its scenario records is      *)
(* active                                                                      *)
C12_EndSessionCleansUp ==
  (response.op \in EndOps /\ response.result = "ok") =>
    /\ \A s \in sessions : s.id = response.sessionId => s.status = "complete"
    /\ \A p \in participants : p.sessionId = response.sessionId => ~p.isActive
    /\ \A x \in sessionScenarios : x.sessionId = response.sessionId => x.status # "active"

(* C13: an endSession on a session that an earlier endSession completed        *)
(* changes nothing: the session row (status, end timestamp), the participants  *)
(* and the scenario records stay as they were                                  *)
C13_EndSessionIdempotent ==
  [][(/\ response'.op \in EndOps
      /\ \E s \in sessions : /\ s.id = response'.sessionId
                             /\ s.status = "complete" /\ s.endedAt # NULL)
     => (/\ sessions' = sessions
         /\ participants' = participants
         /\ sessionScenarios' = sessionScenarios)]_vars

----------------------------------------------------------------------------
(* Claims on the Timer Coordinator *)

TimerStarted == Len(emitted) = 1 /\ emitted[1].event = "timer_started"

(* C14: no two running timers have the same (session, scenario) key, and a     *)
(* start_timer that is accepted leaves for its key exactly the timer it set,   *)
(* counting from the requested duration: the timer the key had is gone         *)
C14_OneTimerPerKey ==
  [][/\ \A t, u \in sessionTimers' :
          (t.sessionId = u.sessionId /\ t.scenarioId = u.scenarioId) => t = u
     /\ (received'.event = "start_timer" /\ TimerStarted')
          => LET p == emitted'[1].payload IN
             /\ \A old \in TimerOf(p.session_id, p.scenario_id) : old \notin sessionTimers'
             /\ \E t \in sessionTimers' :
                  /\ t.secondsRemaining = p.duration
                  /\ {u \in sessionTimers' : /\ u.sessionId = p.session_id
                                             /\ u.scenarioId = p.scenario_id} = {t}]_vars

(* a timer that replaced a running one of its key has just been started *)
C14_TimerRestarted ==
  /\ received.event = "start_timer" /\ TimerStarted
  /\ \E t \in sessionTimers :
       /\ t.sessionId = emitted[1].payload.session_id
       /\ t.scenarioId = emitted[1].payload.scenario_id
       /\ t.secondsRemaining = emitted[1].payload.duration
       /\ t.handle = 2
  /\ Cardinality(sessionTimers) = 1

TimerTicks == {i \in 1..Len(emitted) : emitted[i].event = "timer_tick"}

(* C15: every timer_tick that is emitted comes from the running timer of its   *)
(* key and carries one second less than that timer had (its last tick, or the  *)
(* duration it was started with), so the ticks of a key go strictly down; and  *)
(* once a tick of 0 or less went out the key has no timer left that could tick *)
C15_TicksOrdered ==
  [][\A i \in TimerTicks' :
       LET p == emitted'[i].payload IN
       \E t \in TimerOf(p.session_id, p.scenario_id) :
         /\ p.seconds_remaining = t.secondsRemaining - 1
         /\ {u \in sessionTimers' : /\ u.sessionId = p.session_id
                                    /\ u.scenarioId = p.scenario_id}
              = IF p.seconds_remaining > 0
                THEN {[t EXCEPT !.secondsRemaining = p.seconds_remaining]}
                ELSE {}]_vars

(* the expiry tick of a key went out and the key has no timer any more *)
C15_ExpiryTickEmitted ==
  \E i \in TimerTicks :
    /\ emitted[i].payload.seconds_remaining = 0
    /\ TimerOf(emitted[i].payload.session_id, emitted[i].payload.scenario_id) = {}

----------------------------------------------------------------------------
(* The server as it is wired: the REST routes next to the RealtimeService      *)
(* they are created with                                                       *)

(* POST /sessions/:sessionId/end: RoomService.endSession and the reply; the    *)
(* route touches no timer and broadcasts nothing                               *)
Route_EndSession(sid) ==
  /\ sessions' = EndedSessions(sid)
  /\ response' = EndResponse("RoomService.endSession", sid)
  /\ received' = NoMessage
  /\ emitted' = <<>>
  /\ UNCHANGED <<participants, sessionScenarios, votes, rationales, mitigations,
                 circuitBreakers, now, sideVars, inflight, socketData, sessionTimers>>

NextSessionEnd ==
  \/ \E k \in Sockets : RT_Connect(k)
  \/ \E k \in Sockets, sid \in SessionIds, scid \in ScenarioIds, d \in DurationInputs :
       RT_StartTimer(k, sid, scid, d)
  \/ \E k \in Sockets, sid \in SessionIds, code \in RoomCodes : RT_EndSession(k, sid, code)
  \/ \E sid \in SessionIds : Route_EndSession(sid)
  \/ \E t \in sessionTimers : TimerTick(t)

SpecSessionEnd == InitVote /\ [][NextSessionEnd]_vars

SessionEnded(sid) ==
  \E s \in sessions : s.id = sid /\ s.status \in {"complete", "cancelled"}

(* C16: an end_session message leaves no timer of its session running, and no  *)
(* timer of a session that has ended ticks: every timer_tick that is emitted   *)
(* is for a session that is not complete or cancelled                          *)
C16_NoTickAfterSessionEnd ==
  [][/\ received'.event = "end_session"
          => \A t \in sessionTimers' : t.sessionId # received'.sessionId
     /\ \A i \in TimerTicks' : ~SessionEnded(emitted'[i].payload.session_id)]_vars

----------------------------------------------------------------------------
(* POST /votes: submitVoteSchema.parse, RoomService.submitVote (its awaited    *)
(* inserts one step each), RoomService.getVoteSummary, the two broadcasts and  *)
(* the reply                                                                   *)

VotesRoute == "POST /votes"

(* when submitVote has returned the route goes on to getVoteSummary *)
Route_Next(pc) == IF pc = "done" THEN "summary" ELSE pc

(* RealtimeService.broadcastVoteCast: the data goes out as it is *)
broadcastVoteCast(sid, data) == Emit(ToRoom(sid), "vote_cast", data)

(* RealtimeService.broadcastRationaleAdded: the data goes out as it is *)
broadcastRationaleAdded(sid, data) == Emit(ToRoom(sid), "rationale_added", data)

Route_Votes(sid, pid, scid, v, rat, mit) ==
  LET id == Cardinality(votes) + 1
      q == VoteReq(VotesRoute, "insertVote", sid, pid, scid, v, rat, mit, id)
  IN
  /\ VoteBudgetLeft /\ CanSuspend
  /\ IF v \notin VoteType
     THEN /\ votes' = votes /\ inflight' = inflight
          /\ response' = VoteResponse([q EXCEPT !.voteId = NULL], "ZodError")
     ELSE IF VoteInsertable(sid, pid, v)
     THEN /\ votes' = votes \cup {VoteRow(id, sid, pid, scid, v)}
          /\ inflight' = Suspend([q EXCEPT !.pc = Route_Next(AfterVote(q))])
          /\ response' = NoResponse
     ELSE /\ votes' = votes /\ inflight' = inflight
          /\ response' = VoteResponse([q EXCEPT !.voteId = NULL], "StorageError")
  /\ received' = NoMessage /\ emitted' = <<>>
  /\ UNCHANGED <<sessions, participants, sessionScenarios, rationales, mitigations,
                 circuitBreakers, now, sideVars, socketData, sessionTimers>>

Route_Votes_InsertRationale(q) ==
  /\ q \in Waiting /\ q.op = VotesRoute /\ q.pc = "insertRationale"
  /\ rationales' = rationales \cup {[voteId |-> q.voteId, originalText |-> Trim(q.rationale)]}
  /\ inflight' = Resume(q, [q EXCEPT !.pc = Route_Next(AfterRationale(q))])
  /\ response' = NoResponse
  /\ received' = NoMessage /\ emitted' = <<>>
  /\ UNCHANGED <<sessions, participants, sessionScenarios, votes, mitigations,
                 circuitBreakers, now, sideVars, socketData, sessionTimers>>

Route_Votes_InsertMitigation(q) ==
  /\ q \in Waiting /\ q.op = VotesRoute /\ q.pc = "insertMitigation"
  /\ mitigations' = mitigations \cup {[voteId |-> q.voteId, originalText |-> Trim(q.mitigation)]}
  /\ inflight' = Resume(q, [q EXCEPT !.pc = "summary"])
  /\ response' = NoResponse
  /\ received' = NoMessage /\ emitted' = <<>>
  /\ UNCHANGED <<sessions, participants, sessionScenarios, votes, rationales,
                 circuitBreakers, now, sideVars, socketData, sessionTimers>>

(* getVoteSummary has answered: vote_cast, then rationale_added under          *)
(* if (data.rationale), which a string passes unless it is empty               *)
Route_Votes_Summary(q) ==
  LET summary == Summarize(voteResults(q.sessionId, q.scenarioId, FALSE), EmptySummary) IN
  /\ q \in Waiting /\ q.op = VotesRoute /\ q.pc = "summary"
  /\ emitted' = broadcastVoteCast(q.sessionId,
                    [session_id |-> q.sessionId, scenario_id |-> q.scenarioId, vote |-> q.vote,
                     total_votes |-> summary.totalVotes, pull_votes |-> summary.pullVotes,
                     dont_pull_votes |-> summary.dontPullVotes])
                 \o (IF q.rationale # ""
                     THEN broadcastRationaleAdded(q.sessionId,
                            [session_id |-> q.sessionId, scenario_id |-> q.scenarioId,
                             vote |-> q.vote, rationale |-> q.rationale,
                             participant_id |-> q.participantId])
                     ELSE <<>>)
  /\ inflight' = Finish(q) /\ response' = VoteResponse(q, "ok")
  /\ received' = NoMessage
  /\ UNCHANGED <<dbVars, circuitBreakers, now, sideVars, socketData, sessionTimers>>

NextVoteRoute ==
  \/ \E c \in VoteCallers, scid \in ScenarioIds, v \in VoteInputs, t \in TextInputs :
       Route_Votes(c[1], c[2], scid, v, t[1], t[2])
  \/ \E q \in Waiting : Route_Votes_InsertRationale(q)
  \/ \E q \in Waiting : Route_Votes_InsertMitigation(q)
  \/ \E q \in Waiting : Route_Votes_Summary(q)

SpecVoteRoute == InitVote /\ [][NextVoteRoute]_vars

EventsOf(name) == {i \in 1..Len(emitted) : emitted[i].event = name}

(* the POST /votes request the step answers with success *)
VoteAnswered(q) ==
  /\ q \in Waiting /\ q.op = VotesRoute
  /\ inflight' = Finish(q) /\ response' = VoteResponse(q, "ok")

(* C20: a POST /votes that succeeds broadcasts to the room of its session      *)
(* exactly one vote_cast, with the tally of the vote rows of the scenario,     *)
(* and, exactly when a rationale text came with it, one rationale_added whose  *)
(* text is the sanitized rationale, and nothing else; a POST /votes that is    *)
(* rejected broadcasts nothing                                                 *)
C20_VoteBroadcasts ==
  [][/\ \A q \in Waiting : VoteAnswered(q) =>
          /\ \A i \in 1..Len(emitted') : emitted'[i].to = ToRoom(q.sessionId)
          /\ Cardinality(EventsOf("vote_cast")') = 1
          /\ \A i \in EventsOf("vote_cast")' :
               /\ emitted'[i].payload.total_votes
                    = Cardinality(VotesFor(q.sessionId, q.scenarioId)')
               /\ emitted'[i].payload.pull_votes
                    = Cardinality({v \in VotesFor(q.sessionId, q.scenarioId)' : v.vote = "pull"})
          /\ Cardinality(EventsOf("rationale_added")')
               = IF q.rationale # NoText THEN 1 ELSE 0
          /\ \A i \in EventsOf("rationale_added")' :
               emitted'[i].payload.rationale = sanitizeRationale(q.rationale)
          /\ Len(emitted') = IF q.rationale # NoText THEN 2 ELSE 1
     /\ (response'.op = VotesRoute /\ response'.result # "ok") => emitted' = <<>>]_vars

----------------------------------------------------------------------------
(* Voting while a countdown runs: POST /votes without texts next to the        *)
(* start_timer handler and the timer callback                                  *)

NextTimedVote ==
  \/ RT_Connect("k1")
  \/ \E sid \in SessionIds, scid \in ScenarioIds, d \in DurationInputs \ {0} :
       RT_StartTimer("k1", sid, scid, d)
  \/ \E t \in sessionTimers : TimerTick(t)
  \/ \E c \in VoteCallers, scid \in ScenarioIds, v \in VoteInputs :
       Route_Votes(c[1], c[2], scid, v, NoText, NoText)
  \/ \E q \in Waiting : Route_Votes_Summary(q)

SpecTimedVote == InitVote /\ [][NextTimedVote]_vars

(* C17: once the expiry tick of a (session, scenario) went out no vote for     *)
(* that scenario is accepted: the step that follows the tick adds no vote row  *)
(* for the scenario of the session                                             *)
C17_ExpiryLocksVoting ==
  [][\A i \in TimerTicks :
       LET p == emitted[i].payload IN
       p.seconds_remaining = 0
         => {v \in votes' : v.sessionId = p.session_id /\ v.scenarioId = p.scenario_id}
              = VotesFor(p.session_id, p.scenario_id)]_vars

(* the decision_announced events among the emitted ones for a key *)
Announced(sid, scid) ==
  {j \in EventsOf("decision_announced") :
     emitted[j].payload.session_id = sid /\ emitted[j].payload.scenario_id = scid}

(* C18: the step in which the timer of a scenario expires broadcasts           *)
(* decision_announced for that scenario exactly once, and a decision that was  *)
(* just announced for a scenario is not broadcast again by the next step       *)
C18_ExpiryAnnouncesOnce ==
  [][/\ \A i \in TimerTicks' :
          emitted'[i].payload.seconds_remaining = 0
            => \E sid \in SessionIds, scid \in ScenarioIds :
                 /\ emitted'[i].payload.session_id = sid
                 /\ emitted'[i].payload.scenario_id = scid
                 /\ Cardinality(Announced(sid, scid)') = 1
     /\ \A sid \in SessionIds, scid \in ScenarioIds :
          Announced(sid, scid) # {} => Announced(sid, scid)' = {}]_vars

(* C19: the expiry event of a timer, the timer_tick with seconds_remaining 0,  *)
(* is never handed to the room as a volatile message, which the transport may  *)
(* drop: it goes out as an ordinary emit                                       *)
C19_ExpiryNotDroppable ==
  \A i \in TimerTicks :
    emitted[i].payload.seconds_remaining = 0 => ~emitted[i].volatile

----------------------------------------------------------------------------
(* The client's store (useGameStore): what one participant's browser keeps of  *)
(* its vote.  The vote service answers {data, error}.                          *)

StoreSubmitVote == "gameStore.submitVote"
StoreScenarioStarted == "gameStore.scenario_started"
DefaultSeconds == 30
StoreRationale == "because"
ServiceErrors == {"null", "Network Error"}

StoreResponse(op, result) == [op |-> op, result |-> result]

(* set({hasVoted: true, ...}) before the service has answered *)
Store_SubmitVote_Optimistic(vote) ==
  /\ CanSuspend
  /\ ~gameStore.hasVoted
  /\ gameStore' = [gameStore EXCEPT !.hasVoted = TRUE, !.myVote = vote, !.loading = TRUE]
  /\ inflight' = Suspend([op |-> StoreSubmitVote, pc |-> "await",
                          scenarioId |-> gameStore.currentScenario, vote |-> vote,
                                  rationale |-> StoreRationale])
  /\ response' = NoResponse
  /\ UNCHANGED <<dbVars, circuitBreakers, now, rtVars, notStore, storeIntervals>>

(* submitVote up to the await of the service call *)
Store_SubmitVote(vote) ==
  /\ CanSuspend
  /\ IF gameStore.hasVoted
     THEN /\ gameStore' = [gameStore EXCEPT !.error = "You have already voted on this scenario"]
          /\ inflight' = inflight
          /\ response' = StoreResponse(StoreSubmitVote, "AlreadyVoted")
     ELSE /\ gameStore' = [gameStore EXCEPT !.loading = TRUE]
          /\ inflight' = Suspend([op |-> StoreSubmitVote, pc |-> "await",
                                  scenarioId |-> gameStore.currentScenario, vote |-> vote,
                                  rationale |-> StoreRationale])
          /\ response' = NoResponse
  /\ UNCHANGED <<dbVars, circuitBreakers, now, rtVars, notStore, storeIntervals>>

(* the service call has answered: throw into the catch, or the commit *)
Store_SubmitVote_Answered(q, error) ==
  /\ q \in Waiting /\ q.op = StoreSubmitVote
  /\ inflight' = Finish(q)
  /\ IF error # "null"
     THEN /\ gameStore' = [gameStore EXCEPT !.loading = FALSE, !.error = error]
          /\ response' = StoreResponse(StoreSubmitVote, error)
     ELSE /\ gameStore' = [gameStore EXCEPT !.hasVoted = TRUE, !.myVote = q.vote,
                                            !.myRationale = q.rationale,
                                            !.loading = FALSE]
          /\ response' = StoreResponse(StoreSubmitVote, "ok")
  /\ UNCHANGED <<dbVars, circuitBreakers, now, rtVars, notStore, storeIntervals>>

(* the set of the scenario_started listener and of startScenario *)
Store_ScenarioStarted(scid) ==
  /\ gameStore' = [gameStore EXCEPT !.currentScenario = scid, !.hasVoted = FALSE,
                                    !.myVote = "null", !.myRationale = "",
                                    !.voteSummary = "null", !.showResults = FALSE,
                                    !.timerActive = TRUE,
                                    !.secondsRemaining = DefaultSeconds]
  /\ response' = StoreResponse(StoreScenarioStarted, "ok")
  /\ UNCHANGED <<dbVars, circuitBreakers, now, inflight, rtVars, notStore, storeIntervals>>

(* the vote_cast listener: updateVoteSummary(data) *)
Store_VoteCast ==
  /\ gameStore' = [gameStore EXCEPT !.voteSummary = "summary"]
  /\ response' = StoreResponse("gameStore.vote_cast", "ok")
  /\ UNCHANGED <<dbVars, circuitBreakers, now, inflight, rtVars, notStore, storeIntervals>>

(* the decision_announced listener *)
Store_DecisionAnnounced ==
  /\ gameStore' = [gameStore EXCEPT !.showResults = TRUE, !.timerActive = FALSE]
  /\ response' = StoreResponse("gameStore.decision_announced", "ok")
  /\ UNCHANGED <<dbVars, circuitBreakers, now, inflight, rtVars, notStore, storeIntervals>>

NextStore ==
  \/ \E vote \in VoteType : Store_SubmitVote(vote)
  \/ \E q \in Waiting, error \in ServiceErrors : Store_SubmitVote_Answered(q, error)
  \/ \E scid \in ScenarioIds : Store_ScenarioStarted(scid)
  \/ Store_VoteCast
  \/ Store_DecisionAnnounced

SpecStore == InitVote /\ [][NextStore]_vars

----------------------------------------------------------------------------
(* Resilience Layer: retryWithBackoff as ResilientDatabase.query configures    *)
(* it.  fn is the wrapped storage operation; each of its invocations settles   *)
(* with a result or with an error.                                             *)

DefaultMaxRetries == 3
MaxRetriesInputs == 1..DefaultMaxRetries

FnErrors == {"connect ECONNREFUSED 127.0.0.1:5432", "Query read timeout",
             "Room is full", "duplicate key value violates unique constraint",
             "Unauthorized"}

(* the words of error.message.toLowerCase() that the test looks for *)
LowerIncludes(message) ==
  CASE message = "connect ECONNREFUSED 127.0.0.1:5432" -> {"econnrefused"}
    [] message = "Query read timeout" -> {"timeout"}
    [] OTHER -> {}

(* the default of retryWithBackoff: every error is retried *)
shouldRetry_Always(message) == TRUE

(* the shouldRetry that query() passes *)
shouldRetry(message) ==
  LowerIncludes(message) \cap {"connection", "timeout", "econnrefused", "enotfound"} # {}

RetryOp == "retryWithBackoff"

RetryResponse(q, result) ==
  [op |-> RetryOp, result |-> result, calls |-> q.calls, maxRetries |-> q.maxRetries,
   errors |-> q.errors]

(* the call and the first fn() of the loop *)
RWB_Call(maxRetries) ==
  /\ CanSuspend
  /\ inflight' = Suspend([op |-> RetryOp, pc |-> "fn", attempt |-> 0, calls |-> 1,
                          maxRetries |-> maxRetries, errors |-> <<>>])
  /\ response' = NoResponse
  /\ UNCHANGED <<dbVars, circuitBreakers, now, rtVars, sideVars>>

(* the loop that goes round once more than maxRetries allows *)
RWB_FnSettled_OneMore(q, outcome) ==
  LET failed == [q EXCEPT !.errors = Append(@, outcome)] IN
  /\ q \in Waiting /\ q.op = RetryOp /\ q.pc = "fn"
  /\ IF outcome = "ok"
     THEN inflight' = Finish(q) /\ response' = RetryResponse(q, "ok")
     ELSE IF ~shouldRetry(outcome)
     THEN inflight' = Finish(q) /\ response' = RetryResponse(failed, outcome)
     ELSE IF q.attempt < q.maxRetries
     THEN inflight' = Resume(q, [failed EXCEPT !.pc = "delay"]) /\ response' = NoResponse
     ELSE inflight' = Finish(q) /\ response' = RetryResponse(failed, outcome)
  /\ UNCHANGED <<dbVars, circuitBreakers, now, rtVars, sideVars>>

(* fn() has settled: return, throw at once, wait for the next attempt, or      *)
(* leave the loop and throw lastError                                          *)
RWB_FnSettled(q, outcome) ==
  LET failed == [q EXCEPT !.errors = Append(@, outcome)] IN
  /\ q \in Waiting /\ q.op = RetryOp /\ q.pc = "fn"
  /\ IF outcome = "ok"
     THEN inflight' = Finish(q) /\ response' = RetryResponse(q, "ok")
     ELSE IF ~shouldRetry(outcome)
     THEN inflight' = Finish(q) /\ response' = RetryResponse(failed, outcome)
     ELSE IF q.attempt < q.maxRetries - 1
     THEN inflight' = Resume(q, [failed EXCEPT !.pc = "delay"]) /\ response' = NoResponse
     ELSE inflight' = Finish(q) /\ response' = RetryResponse(failed, outcome)
  /\ UNCHANGED <<dbVars, circuitBreakers, now, rtVars, sideVars>>

(* the delay is over: attempt++ and the next fn() *)
RWB_Delayed(q) ==
  /\ q \in Waiting /\ q.op = RetryOp /\ q.pc = "delay"
  /\ inflight' = Resume(q, [q EXCEPT !.pc = "fn", !.attempt = @ + 1, !.calls = @ + 1])
  /\ response' = NoResponse
  /\ UNCHANGED <<dbVars, circuitBreakers, now, rtVars, sideVars>>

NextRetry ==
  \/ \E maxRetries \in MaxRetriesInputs : RWB_Call(maxRetries)
  \/ \E q \in Waiting, outcome \in FnErrors \cup {"ok"} : RWB_FnSettled(q, outcome)
  \/ \E q \in Waiting : RWB_Delayed(q)

SpecRetry == InitVote /\ [][NextRetry]_vars

RetryCalls == {q \in Waiting : q.op = RetryOp}

(* C22: the wrapped operation is never invoked more often than maxRetries,     *)
(* while a call runs and when it has ended; a call that ends in failure        *)
(* surfaces the error of its last invocation                                   *)
C22_RetryBounded ==
  /\ \A q \in RetryCalls : q.calls <= q.maxRetries
  /\ response.op = RetryOp =>
       /\ response.calls <= response.maxRetries
       /\ response.result # "ok" =>
            /\ Len(response.errors) = response.calls
            /\ response.result = response.errors[response.calls]

(* every attempt failed with a transient error and the last one was surfaced *)
C22_RetriesExhausted ==
  /\ response.op = RetryOp /\ response.result = "Query read timeout"
  /\ response.maxRetries = DefaultMaxRetries /\ response.calls = DefaultMaxRetries

(* the validation, conflict and authorization errors among the outcomes *)
PermanentErrors == {"Room is full", "duplicate key value violates unique constraint",
                    "Unauthorized"}

(* C23: a validation, conflict or authorization error is never followed by a  *)
(* further invocation: no call still running has met one, and in a call that  *)
(* has ended such an error is the error of the last invocation and the error   *)
(* the caller gets, so an operation that fails that way at once ran once       *)
C23_OnlyTransientRetried ==
  /\ \A q \in RetryCalls : \A i \in 1..Len(q.errors) : q.errors[i] \notin PermanentErrors
  /\ response.op = RetryOp =>
       \A i \in 1..Len(response.errors) :
         response.errors[i] \in PermanentErrors =>
           /\ i = Len(response.errors) /\ i = response.calls
           /\ response.result = response.errors[i]

(* a conflict error after a retried transient one, surfaced without a retry *)
C23_ConflictNotRetried ==
  /\ response.op = RetryOp
  /\ response.result = "duplicate key value violates unique constraint"
  /\ response.calls = 2 /\ response.maxRetries = DefaultMaxRetries

----------------------------------------------------------------------------
(* Rate limiting middleware.  A limiter keeps, for each key, the points        *)
(* consumed in the running window; consume(key) takes one point or rejects     *)
(* with the time left.                                                         *)

MaxHandled == 5
MaxViolations == 5
SuspiciousAfter == 5

(* the points of the limiters the middleware is created with *)
points(limitType) ==
  CASE limitType = "create_room" -> 5
    [] limitType = "sensitive" -> 3

BasePointsInputs == {0, 4}
MsBeforeNextInputs == {400, 30000}

(* Math.round(ms / 1000) *)
RoundSeconds(ms) == (ms + 500) \div 1000

RateLimitOp == "rateLimit"

Passed(limitType, key, pts) ==
  [op |-> RateLimitOp, limitType |-> limitType, key |-> key, points |-> pts,
   status |-> "next"]

Rejected(limitType, key, pts, header, ms) ==
  [op |-> RateLimitOp, limitType |-> limitType, key |-> key, points |-> pts,
   status |-> "429", error |-> "Too many requests", header |-> header,
   retryAfter |-> RoundSeconds(ms)]

(* the middleware made by createRateLimitMiddleware(limiter, limitType) *)
RateLimit(limitType, ip, fingerprint) ==
  LET key == getClientIdentifier(ip, fingerprint) IN
  /\ IF rateLimiters[limitType][key] < points(limitType)
     THEN /\ rateLimiters' = [rateLimiters EXCEPT ![limitType][key] = @ + 1]
          /\ handled' = [handled EXCEPT ![limitType][key] = @ + 1]
          /\ response' = Passed(limitType, key, points(limitType))
     ELSE /\ \E ms \in MsBeforeNextInputs :
               response' = Rejected(limitType, key, points(limitType),
                                    IF RoundSeconds(ms) # 0 THEN RoundSeconds(ms) ELSE 60, ms)
          /\ UNCHANGED <<rateLimiters, handled>>
  /\ UNCHANGED <<dbVars, circuitBreakers, now, inflight, rtVars, notLimit,
                 ipViolations, suspiciousIPs>>

(* DynamicRateLimiter.applyDynamicLimit: a limiter made for this one request *)
applyDynamicLimit(ip, basePoints) ==
  LET pts == IF ip \in suspiciousIPs THEN basePoints \div 4 ELSE basePoints
      dynamicLimiter == [k \in Identifiers |-> 0]
      violations == ipViolations[ip] + 1
  IN
  /\ handled[DynamicLimit][ip] < MaxHandled
  /\ ipViolations[ip] < MaxViolations
  /\ IF dynamicLimiter[ip] < pts
     THEN /\ handled' = [handled EXCEPT ![DynamicLimit][ip] = @ + 1]
          /\ response' = Passed(DynamicLimit, ip, pts)
          /\ UNCHANGED <<ipViolations, suspiciousIPs>>
     ELSE /\ ipViolations' = [ipViolations EXCEPT ![ip] = violations]
          /\ suspiciousIPs' = IF violations >= SuspiciousAfter
                               THEN suspiciousIPs \cup {ip} ELSE suspiciousIPs
          /\ \E ms \in MsBeforeNextInputs :
               response' = Rejected(DynamicLimit, ip, pts, "none", ms)
          /\ UNCHANGED handled
  /\ UNCHANGED <<dbVars, circuitBreakers, now, inflight, rtVars, notLimit, rateLimiters>>

(* the window of a key is over: its points are back, and a new window of       *)
(* requests begins for it                                                      *)
WindowExpired(key) ==
  /\ \E t \in DOMAIN handled : handled[t][key] > 0
  /\ rateLimiters' = [t \in LimitTypes |-> [rateLimiters[t] EXCEPT ![key] = 0]]
  /\ handled' = [t \in DOMAIN handled |-> [handled[t] EXCEPT ![key] = 0]]
  /\ response' = NoResponse
  /\ UNCHANGED <<dbVars, circuitBreakers, now, inflight, rtVars, notLimit,
                 ipViolations, suspiciousIPs>>

(* the hourly interval of DynamicRateLimiter *)
ClearViolations ==
  /\ \E ip \in ClientIPs : ipViolations[ip] > 0
  /\ ipViolations' = [ip \in ClientIPs |-> 0]
  /\ response' = NoResponse
  /\ UNCHANGED <<dbVars, circuitBreakers, now, inflight, rtVars, notLimit,
                 rateLimiters, handled, suspiciousIPs>>

NextRateLimit ==
  \/ \E t \in LimitTypes, ip \in ClientIPs, f \in RequestFingerprints : RateLimit(t, ip, f)
  \/ \E ip \in ClientIPs, basePoints \in BasePointsInputs : applyDynamicLimit(ip, basePoints)
  \/ \E key \in Identifiers : WindowExpired(key)
  \/ ClearViolations

SpecRateLimit == InitVote /\ [][NextRateLimit]_vars

(* C25: a request reaches the handler only while the requests of its           *)
(* identifier and class that reached it in the window are within the budget of *)
(* the class, and a rejection carries the number of seconds to wait            *)
C25_BudgetEnforced ==
  response.op = RateLimitOp =>
    /\ response.status = "next" =>
         handled[response.limitType][response.key] <= response.points
    /\ response.status = "429" => response.retryAfter \in Nat

----------------------------------------------------------------------------
(* Connection throttling: the authentication middleware of                     *)
(* RealtimeServiceSecure and the two cleanup intervals                         *)

MaxConnectionAttempts == 10
ConnectOp == "io.use"
TokenInputs == {"null", "expired", "t1"}

ConnectResponse(ip, result) == [op |-> ConnectOp, ip |-> ip, result |-> result]

(* the middleware without the look at blockedIPs *)
RTS_Authenticate_NoBlockCheck(k, ip, token) ==
  LET attempts == connectionAttempts[ip] IN
  /\ ~socketData[k].connected
  /\ IF attempts > MaxConnectionAttempts
     THEN /\ blockedIPs' = blockedIPs \cup {ip}
          /\ response' = ConnectResponse(ip, "Too many connection attempts")
          /\ UNCHANGED <<connectionAttempts, socketData>>
     ELSE /\ connectionAttempts' = [connectionAttempts EXCEPT ![ip] = attempts + 1]
          /\ blockedIPs' = blockedIPs
          /\ IF token = "null"
             THEN response' = ConnectResponse(ip, "Authentication required")
                  /\ socketData' = socketData
             ELSE IF token = "expired"
             THEN response' = ConnectResponse(ip, "Authentication failed")
                  /\ socketData' = socketData
             ELSE /\ socketData' = [socketData EXCEPT
                       ![k] = [Authenticated("s1", 1, "AAAAAA") EXCEPT !.rooms = {}]]
                  /\ response' = ConnectResponse(ip, "ok")
  /\ UNCHANGED <<dbVars, circuitBreakers, now, inflight, sessionTimers, received, emitted,
                 notConn>>

(* io.use middleware: blocked address, attempt count, token *)
RTS_Authenticate(k, ip, token) ==
  LET attempts == connectionAttempts[ip] IN
  /\ ~socketData[k].connected
  /\ IF ip \in blockedIPs
     THEN /\ response' = ConnectResponse(ip, "Access denied")
          /\ UNCHANGED <<connectionAttempts, blockedIPs, socketData>>
     ELSE IF attempts > MaxConnectionAttempts
     THEN /\ blockedIPs' = blockedIPs \cup {ip}
          /\ response' = ConnectResponse(ip, "Too many connection attempts")
          /\ UNCHANGED <<connectionAttempts, socketData>>
     ELSE /\ connectionAttempts' = [connectionAttempts EXCEPT ![ip] = attempts + 1]
          /\ blockedIPs' = blockedIPs
          /\ IF token = "null"
             THEN response' = ConnectResponse(ip, "Authentication required")
                  /\ socketData' = socketData
             ELSE IF token = "expired"
             THEN response' = ConnectResponse(ip, "Authentication failed")
                  /\ socketData' = socketData
             ELSE /\ socketData' = [socketData EXCEPT
                       ![k] = [Authenticated("s1", 1, "AAAAAA") EXCEPT !.rooms = {}]]
                  /\ response' = ConnectResponse(ip, "ok")
  /\ UNCHANGED <<dbVars, circuitBreakers, now, inflight, sessionTimers, received, emitted,
                 notConn>>

(* the hourly interval *)
ClearConnectionAttempts ==
  /\ \E ip \in Origins : connectionAttempts[ip] > 0
  /\ connectionAttempts' = [ip \in Origins |-> 0]
  /\ response' = NoResponse
  /\ UNCHANGED <<dbVars, circuitBreakers, now, inflight, rtVars, notConn, blockedIPs>>

(* the daily interval *)
ClearBlockedIPs ==
  /\ blockedIPs # {}
  /\ blockedIPs' = {}
  /\ response' = NoResponse
  /\ UNCHANGED <<dbVars, circuitBreakers, now, inflight, rtVars, notConn, connectionAttempts>>

NextConnect ==
  \/ \E k \in Sockets, ip \in Origins, token \in TokenInputs : RTS_Authenticate(k, ip, token)
  \/ ClearConnectionAttempts
  \/ ClearBlockedIPs

(* both intervals keep firing *)
SpecConnect ==
  /\ InitVote /\ [][NextConnect]_vars
  /\ WF_vars(ClearConnectionAttempts) /\ WF_vars(ClearBlockedIPs)

(* C26: an attempt that gets past the throttle adds one to the count of its    *)
(* own origin only and is made while that count is within the threshold; an    *)
(* attempt above the threshold blocks the origin; every attempt of a blocked   *)
(* origin is refused and connects nothing; and a blocked origin is in time     *)
(* unblocked with a count that lets it connect                                 *)
C26_OriginThrottled ==
  /\ [][\A ip \in Origins :
         (response'.op = ConnectOp /\ response'.ip = ip) =>
           /\ ip \in blockedIPs =>
                /\ response'.result = "Access denied"
                /\ UNCHANGED <<socketData, connectionAttempts, blockedIPs>>
           /\ response'.result \in {"ok", "Authentication required", "Authentication failed"} =>
                /\ connectionAttempts[ip] <= MaxConnectionAttempts
                /\ connectionAttempts' = [connectionAttempts EXCEPT ![ip] = @ + 1]
           /\ (ip \notin blockedIPs /\ connectionAttempts[ip] > MaxConnectionAttempts) =>
                ip \in blockedIPs']_vars
  /\ \A ip \in Origins :
       (ip \in blockedIPs) ~>
         (ip \notin blockedIPs /\ connectionAttempts[ip] <= MaxConnectionAttempts)

(* a blocked origin is refused although its attempts were swept meanwhile *)
C26_BlockedRefused ==
  /\ response.op = ConnectOp /\ response.result = "Access denied"
  /\ connectionAttempts[response.ip] = 0

----------------------------------------------------------------------------
(* Room creation by the three services.  The codes drawn are the values of     *)
(* RoomCodes; sessions.room_code is UNIQUE.                                    *)

MaxCodeAttempts == 10
RSE_Create == "RoomServiceEnhanced.createRoom"
Mock_Create == "MockRoomService.createRoom"
CreateCapacityInputs == {0, 2}
MockSessionIds == {"session-1", "session-2"}

FreeSessionIds == {id \in SessionIds : \A s \in sessions : s.id # id}

CreateReq(pc, code, maxP, attempts) ==
  [op |-> RSE_Create, pc |-> pc, roomCode |-> code, maxParticipants |-> maxP,
   attempts |-> attempts]

(* createRoom up to the first SELECT of the transaction *)
RSE_CreateRoom(code, maxP) ==
  /\ IF maxP < 1 \/ maxP > 500
     THEN /\ inflight' = inflight
          /\ response' = [op |-> RSE_Create,
                          result |-> "Max participants must be between 1 and 500"]
     ELSE /\ CanSuspend
          /\ inflight' = Suspend(CreateReq("select", code, maxP, 0))
          /\ response' = NoResponse
  /\ UNCHANGED <<dbVars, circuitBreakers, now, rtVars, sideVars>>

(* the SELECT has answered: go on to the INSERT, draw another code, or give up *)
RSE_CreateRoom_Selected(q, code) ==
  /\ q \in Waiting /\ q.op = RSE_Create /\ q.pc = "select"
  /\ IF \A s \in sessions : s.roomCode # q.roomCode
     THEN /\ inflight' = Resume(q, [q EXCEPT !.pc = "insert"])
          /\ response' = NoResponse
     ELSE IF q.attempts + 1 < MaxCodeAttempts
     THEN /\ inflight' = Resume(q, [q EXCEPT !.roomCode = code, !.attempts = @ + 1])
          /\ response' = NoResponse
     ELSE /\ inflight' = Finish(q)
          /\ response' = [op |-> RSE_Create, result |-> "Failed to generate unique room code",
                          attempts |-> q.attempts + 1]
  /\ UNCHANGED <<dbVars, circuitBreakers, now, rtVars, sideVars>>

(* the INSERT and the COMMIT *)
RSE_CreateRoom_Insert(q, id) ==
  /\ q \in Waiting /\ q.op = RSE_Create /\ q.pc = "insert"
  /\ id \in FreeSessionIds
  /\ inflight' = Finish(q)
  /\ IF \E s \in sessions : s.roomCode = q.roomCode
     THEN /\ sessions' = sessions
          /\ response' = [op |-> RSE_Create, result |-> "StorageError"]
     ELSE /\ sessions' = sessions \cup {SessionRow(id, q.roomCode, q.maxParticipants, now)}
          /\ response' = [op |-> RSE_Create, result |-> "ok", sessionId |-> id,
                          roomCode |-> q.roomCode]
  /\ UNCHANGED <<participants, sessionScenarios, votes, rationales, mitigations,
                 circuitBreakers, now, rtVars, sideVars>>

(* MockRoomService.createRoom: sessions.set(`session-${Date.now()}`, session) *)
Mock_CreateRoom(id, code) ==
  /\ mockSessions' = {s \in mockSessions : s.id # id}
                       \cup {[id |-> id, room_code |-> code, status |-> "waiting"]}
  /\ response' = [op |-> Mock_Create, result |-> "ok", sessionId |-> id, roomCode |-> code]
  /\ UNCHANGED <<dbVars, circuitBreakers, now, inflight, rtVars, notRoom, generated>>

NextCreateRoom ==
  \/ \E id \in SessionIds, code \in RoomCodes, maxP \in CreateCapacityInputs \ {0} :
       RS_CreateRoom(id, code, maxP)
  \/ \E code \in RoomCodes, maxP \in CreateCapacityInputs : RSE_CreateRoom(code, maxP)
  \/ \E q \in Waiting, code \in RoomCodes : RSE_CreateRoom_Selected(q, code)
  \/ \E q \in Waiting, id \in SessionIds : RSE_CreateRoom_Insert(q, id)
  \/ \E id \in MockSessionIds, code \in RoomCodes : Mock_CreateRoom(id, code)

SpecCreateRoom == InitLifecycle /\ [][NextCreateRoom]_vars

(* C27: a session that a step creates has a room code that no session existing *)
(* before the step and not complete has, in the database and in the mock       *)
C27_CodeUniqueAtCreation ==
  [][/\ \A n \in sessions' \ sessions :
          (\A s \in sessions : s.id # n.id) =>
            \A s \in sessions : s.status # "complete" => s.roomCode # n.roomCode
     /\ \A n \in mockSessions' \ mockSessions :
          \A s \in mockSessions :
            (s.id # n.id /\ s.status # "complete") => s.room_code # n.room_code]_vars

(* C29: createRoom ends with the session created, with the configuration       *)
(* refused, or, after 10 colliding codes, with the code space exhausted and no *)
(* session created; a collision alone never fails it                           *)
C29_CollisionRetried ==
  [][response'.op \in {"RoomService.createRoom", RSE_Create} =>
       /\ response'.result \in {"ok", "Failed to generate unique room code",
                                "Max participants must be between 1 and 500"}
       /\ response'.result = "Failed to generate unique room code" =>
            (sessions' = sessions /\ response'.attempts = MaxCodeAttempts)
       /\ response'.result = "ok" =>
            \E n \in sessions' \ sessions : n.roomCode = response'.roomCode]_vars

----------------------------------------------------------------------------
(* The two generators of room codes.  A code is the sequence of its            *)
(* characters.                                                                 *)

CodeLength == 6

(* 'ABCDEFGHJKLMNPQRSTUVWXYZ23456789' *)
SecureChars ==
  <<"A", "B", "C", "D", "E", "F", "G", "H", "J", "K", "L", "M", "N", "P", "Q", "R",
    "S", "T", "U", "V", "W", "X", "Y", "Z", "2", "3", "4", "5", "6", "7", "8", "9">>

(* values of Math.floor(Math.random() * chars.length) *)
RandomIndexInputs == {0, 8, Len(SecureChars) - 1}

(* characters of the strings nanoid(6) returns *)
NanoidCharInputs == {"B", "i", "0"}

(* String.prototype.toUpperCase on one character *)
toUpperCase(c) == IF c = "i" THEN "I" ELSE c

(* AuthService.generateSecureRoomCode *)
generateSecureRoomCode(random) ==
  /\ generated' = [by |-> "generateSecureRoomCode",
                   code |-> [i \in 1..CodeLength |-> SecureChars[random[i] + 1]]]
  /\ response' = NoResponse
  /\ UNCHANGED <<dbVars, circuitBreakers, now, inflight, rtVars, notRoom, mockSessions>>

(* RoomService.generateRoomCode: nanoid(6).toUpperCase() *)
generateRoomCode(id) ==
  /\ generated' = [by |-> "generateRoomCode",
                   code |-> [i \in 1..Len(id) |-> toUpperCase(id[i])]]
  /\ response' = NoResponse
  /\ UNCHANGED <<dbVars, circuitBreakers, now, inflight, rtVars, notRoom, mockSessions>>

NextRoomCode ==
  \/ \E random \in [1..CodeLength -> RandomIndexInputs] : generateSecureRoomCode(random)
  \/ \E id \in [1..CodeLength -> NanoidCharInputs] : generateRoomCode(id)

SpecRoomCode == InitLifecycle /\ [][NextRoomCode]_vars

AmbiguousChars == {"0", "O", "1", "I"}

(* C28: a generated room code has exactly 6 characters and none of them is one *)
(* of the ambiguous characters 0, O, 1 and I                                   *)
C28_CodeAlphabet ==
  generated.by # "none" =>
    /\ Len(generated.code) = 6
    /\ \A i \in 1..Len(generated.code) : generated.code[i] \notin AmbiguousChars

----------------------------------------------------------------------------
(* Leaving: leave_room and disconnect of RealtimeService, disconnect of        *)
(* RealtimeServiceSecure                                                       *)

(* the disconnect handler and handleParticipantLeft of RealtimeServiceSecure *)
RTS_Disconnect(k) ==
  LET d == socketData[k] IN
  /\ d.connected
  /\ received' = Received(k, "disconnect", NoSession)
  /\ socketData' = [socketData EXCEPT ![k] = NoSocketData]
  /\ emitted' = IF d.sessionId # NoSession /\ d.participantId # NULL
                THEN Emit(ToRoom(d.sessionId), "participant_left",
                          [participant_id |-> d.participantId, room_code |-> d.roomCode,
                           active_count |-> getActiveParticipantCount(d.sessionId)])
                ELSE <<>>
  /\ UNCHANGED <<dbVars, circuitBreakers, now, sideVars, reqVars, sessionTimers>>

(* socket k1 talks to RealtimeService, socket k2 to RealtimeServiceSecure *)
NextLeave ==
  \/ RT_Connect("k1")
  \/ \E c \in JoinData : RT_JoinRoom("k1", c[1], c[2])
  \/ RT_LeaveRoom("k1")
  \/ RT_Disconnect("k1")
  \/ \E ip \in Origins, token \in TokenInputs : RTS_Authenticate("k2", ip, token)
  \/ RTS_Disconnect("k2")

SpecLeave == InitVote /\ [][NextLeave]_vars

(* C30: when leave_room or disconnect is handled for a socket that carries a   *)
(* session and a participant, the record of that participant is still there    *)
(* afterwards and is inactive                                                  *)
C30_LeaveSoftDeletes ==
  [][\A k \in Sockets :
       (/\ received'.event \in {"leave_room", "disconnect"} /\ received'.socket = k
        /\ socketData[k].sessionId # NoSession /\ socketData[k].participantId # NULL) =>
         \E p \in participants' :
           p.id = socketData[k].participantId /\ ~p.isActive]_vars

----------------------------------------------------------------------------
(* The staleness sweep next to the joins of a room.  The clock counts days.    *)

InitSweep ==
  /\ sessions = {SessionRow("s1", "AAAAAA", 2, 0)}
  /\ participants = {} /\ sessionScenarios = {}
  /\ votes = {} /\ rationales = {} /\ mitigations = {}
  /\ circuitBreakers = [n \in BreakerNames |-> NoBreaker]
  /\ now = 0 /\ InitSide
  /\ inflight = EmptyBag /\ response = NoResponse
  /\ socketData = NoSockets /\ sessionTimers = {} /\ received = NoMessage /\ emitted = <<>>

NextSweep ==
  \/ \E fp \in {"fp1", "fp2"} : inflight = EmptyBag /\ RS_JoinRoom("AAAAAA", fp)
  \/ \E q \in Waiting : JoinRoom_Count(q)
  \/ \E q \in Waiting : JoinRoom_Existing(q)
  \/ \E q \in Waiting : JoinRoom_Write(q)
  \/ RSE_CleanupStaleSessions
  \/ \E q \in Waiting : RSE_CleanupStaleSessions_Update(q)
  \/ Tick

SpecSweep == InitSweep /\ [][NextSweep]_vars

(* the day of the last write for a session: its creation or its last join *)
LastActivity(s) ==
  LET days == {s.createdAt} \cup {p.joinedAt : p \in {x \in participants : x.sessionId = s.id}}
  IN CHOOSE d \in days : \A e \in days : e <= d

(* C31: a session that the sweep moves from waiting or active to cancelled had *)
(* no activity during the last 24 hours                                        *)
C31_SweepSparesActive ==
  [][\A s \in sessions :
       (/\ response'.op = SweepOp /\ s.status \in JoinableStatus
        /\ \E t \in sessions' : t.id = s.id /\ t.status = "cancelled") =>
         LastActivity(s) <= now - StaleAfterDays]_vars

----------------------------------------------------------------------------
(* C32: the active participants of a session never number more than its        *)
(* maxParticipants                                                             *)
C32_CapacityNeverExceeded ==
  \A s \in sessions : ActiveCount(s.id) <= s.maxParticipants

----------------------------------------------------------------------------
(* RoomService.submitVote when the storage rejects a statement *)

(* the awaited INSERT of the rationale or of the mitigation rejects: the catch *)
(* returns the error                                                           *)
RS_SubmitVote_InsertRejected(q) ==
  /\ q \in Waiting /\ q.op = "RoomService.submitVote"
  /\ q.pc \in {"insertRationale", "insertMitigation"}
  /\ inflight' = Finish(q)
  /\ response' = VoteResponse(q, "StorageError")
  /\ UNCHANGED <<dbVars, circuitBreakers, now, sideVars, rtVars>>

NextVoteAtomic ==
  \/ \E c \in VoteCallers, scid \in ScenarioIds, v \in VoteInputs, t \in TextInputs :
       RS_SubmitVote(c[1], c[2], scid, v, t[1], t[2])
  \/ \E q \in Waiting : RS_SubmitVote_InsertRationale(q)
  \/ \E q \in Waiting : RS_SubmitVote_InsertMitigation(q)
  \/ \E q \in Waiting : RS_SubmitVote_InsertRejected(q)

SpecVoteAtomic == InitVote /\ [][NextVoteAtomic]_vars

(* C33: a submission that reports an error leaves no vote row of its own       *)
(* behind, and the step that reports it adds none                              *)
C33_FailedVoteLeavesNothing ==
  [][(/\ response'.op \in {"RoomService.submitVote", "RoomServiceEnhanced.submitVote"}
      /\ response'.result # "ok") =>
       /\ votes' \subseteq votes
       /\ \A v \in votes' : v.id # response'.voteId]_vars

----------------------------------------------------------------------------
(* C34: the statements a joinRoom call runs through query('join-room', ...)    *)
(* act on the room code and the fingerprint of that very call                  *)
C34_OwnClosureExecuted ==
  \A q \in Waiting :
    q.op = RSE_Join =>
      /\ q.fnRoomCode = sanitizeRoomCode(q.roomCode)
      /\ q.fnFingerprint = sanitizeFingerprint(q.fingerprint)

-----------------------------------------------------------------------------
(* The client and double voting, client/src/stores/gameStore.ts:214-246 and  *)
(* client/src/components/GameRoom.tsx:263-317: both guards read hasVoted,    *)
(* which the store sets after the awaited service call                       *)

(* C35: for one participant and one scenario the client has at most one vote *)
(* request under way, also when submit is triggered again before the first   *)
(* submission has completed                                                  *)
C35_OneVoteRequestPerScenario ==
  \A q \in Waiting : q.op = StoreSubmitVote =>
    /\ CopiesIn(q, inflight) = 1
    /\ \A r \in Waiting : (r.op = StoreSubmitVote /\ r.scenarioId = q.scenarioId) => r = q

-----------------------------------------------------------------------------
(* Scenario change in the client store, client/src/stores/gameStore.ts:      *)
(* 161-186: the listener resets the voting state; a submitVote that awaits   *)
(* its answer commits hasVoted into whatever scenario is current by then     *)

(* C36: the voting state that a new scenario resets stays reset until the    *)
(* participant votes on that scenario: the step of scenario_started leaves   *)
(* hasVoted false with vote, rationale, summary and results flag cleared,    *)
(* and hasVoted turns true only by the answer to a vote request that was     *)
(* made for the scenario that is current                                     *)
C36_ScenarioStartResets ==
  [][/\ response'.op = StoreScenarioStarted =>
          /\ ~gameStore'.hasVoted /\ gameStore'.myVote = "null"
          /\ gameStore'.myRationale = "" /\ gameStore'.voteSummary = "null"
          /\ ~gameStore'.showResults
     /\ (~gameStore.hasVoted /\ gameStore'.hasVoted) =>
          \E q \in Waiting : /\ q.op = StoreSubmitVote /\ inflight' = Finish(q)
                             /\ q.scenarioId = gameStore'.currentScenario]_vars

-----------------------------------------------------------------------------
(* Termination of the countdown of start_timer,                              *)
(* server/src/services/realtimeService.ts:116-154                            *)

(* C37: a timer started by start_timer counts down to exactly 0: no          *)
(* timer_tick carries seconds_remaining below 0, and the tick that carries 0 *)
(* leaves no timer under its key in the timer map                            *)
C37_TimerEndsAtZero ==
  \A i \in 1..Len(emitted) : emitted[i].event = "timer_tick" =>
    /\ emitted[i].payload.seconds_remaining >= 0
    /\ emitted[i].payload.seconds_remaining = 0 =>
         TimerOf(emitted[i].payload.session_id, emitted[i].payload.scenario_id) = {}

-----------------------------------------------------------------------------
(* The frame of end_session, server/src/services/realtimeService.ts:186-201  *)
(* and realtimeServiceSecure.ts:394-401: the timers dropped are those whose  *)
(* key starts with the sessionId of the message                              *)

(* C38: an end_session message removes from the timer map only timers of the *)
(* session it names; the timers of every other session stay in the map       *)
C38_EndSessionFrame ==
  [][received'.event = "end_session" =>
       \A t \in sessionTimers :
         t.sessionId # received'.sessionId => t \in sessionTimers']_vars

-----------------------------------------------------------------------------
(* The countdown of the client store, client/src/stores/gameStore.ts:282-312 *)
(* and 188-194.  storeIntervals holds the handles of the intervals that      *)
(* startTimer has set and that have not cleared themselves.                  *)

MaxIntervals == 2
StoreDurations == {1, 3}
TickInputs == {0, 1}

NewIntervalHandle == CHOOSE h \in 1..MaxIntervals : h \notin storeIntervals

(* startTimer(duration), also what the timer_started listener calls *)
Store_StartTimer(duration) ==
  /\ Cardinality(storeIntervals) < MaxIntervals
  /\ gameStore' = [gameStore EXCEPT !.timerActive = TRUE, !.secondsRemaining = duration]
  /\ storeIntervals' = storeIntervals \cup {NewIntervalHandle}
  /\ response' = StoreResponse("gameStore.startTimer", "ok")
  /\ UNCHANGED <<dbVars, circuitBreakers, now, inflight, rtVars, notStore>>

(* the callback of an interval of startTimer, once a second *)
Store_IntervalFires(timer) ==
  /\ timer \in storeIntervals
  /\ IF ~gameStore.timerActive
     THEN /\ storeIntervals' = storeIntervals \ {timer}
          /\ gameStore' = gameStore
     ELSE IF gameStore.secondsRemaining <= 1
     THEN /\ storeIntervals' = storeIntervals \ {timer}
          /\ gameStore' = [gameStore EXCEPT !.timerActive = FALSE, !.secondsRemaining = 0,
                                            !.showResults = TRUE]
     ELSE /\ storeIntervals' = storeIntervals
          /\ gameStore' = [gameStore EXCEPT !.secondsRemaining = @ - 1]
  /\ response' = StoreResponse("gameStore.interval", "ok")
  /\ UNCHANGED <<dbVars, circuitBreakers, now, inflight, rtVars, notStore>>

Store_StopTimer ==
  /\ gameStore' = [gameStore EXCEPT !.timerActive = FALSE]
  /\ response' = StoreResponse("gameStore.stopTimer", "ok")
  /\ UNCHANGED <<dbVars, circuitBreakers, now, inflight, rtVars, notStore, storeIntervals>>

(* the timer_tick listener *)
Store_TimerTick(seconds) ==
  /\ gameStore' = [gameStore EXCEPT !.secondsRemaining = seconds]
  /\ response' = StoreResponse("gameStore.timer_tick", "ok")
  /\ UNCHANGED <<dbVars, circuitBreakers, now, inflight, rtVars, notStore, storeIntervals>>

NextStoreTimer ==
  \/ \E duration \in StoreDurations : Store_StartTimer(duration)
  \/ \E timer \in storeIntervals : Store_IntervalFires(timer)
  \/ Store_StopTimer
  \/ \E seconds \in TickInputs : Store_TimerTick(seconds)
  \/ \E scid \in ScenarioIds : Store_ScenarioStarted(scid)
  \/ Store_DecisionAnnounced

SpecStoreTimer == InitVote /\ [][NextStoreTimer]_vars

(* C39: the client store runs at most one countdown at a time, so that       *)
(* secondsRemaining loses at most one per second, and secondsRemaining is    *)
(* never below 0                                                             *)
C39_SingleCountdown ==
  /\ Cardinality(storeIntervals) <= 1
  /\ gameStore.secondsRemaining >= 0

-----------------------------------------------------------------------------
(* Bulkhead, server/src/utils/resilience.ts:336-369.  bulkhead.calls gives   *)
(* the position of every execute call: idle (not made), queued (awaiting the *)
(* promise whose resolve is in the queue), woken (resolve called, the        *)
(* continuation not yet run), running (inside fn) or done.                   *)

MaxConcurrentInputs == {1, 2}
FnOutcomes == {"ok", "Network Error"}
BulkheadExecute == "Bulkhead.execute"

(* constructor(private maxConcurrent: number) *)
Bulkhead_New(maxConcurrent) ==
  /\ bulkhead.maxConcurrent = 0
  /\ bulkhead' = [bulkhead EXCEPT !.maxConcurrent = maxConcurrent]
  /\ response' = NoResponse
  /\ UNCHANGED <<dbVars, circuitBreakers, now, inflight, rtVars, notPool>>

(* the loop test and what follows it up to the next await: the resolve is    *)
(* pushed, or running++ and fn is called                                     *)
Bulkhead_Enter(c) ==
  IF bulkhead.running >= bulkhead.maxConcurrent
  THEN bulkhead' = [bulkhead EXCEPT !.queue = Append(@, c), !.calls[c] = "queued"]
  ELSE bulkhead' = [bulkhead EXCEPT !.running = @ + 1, !.calls[c] = "running"]

(* the continuation of a woken call with an if in place of the while *)
Bulkhead_Resume_NoRecheck(c) ==
  /\ bulkhead.calls[c] = "woken"
  /\ bulkhead' = [bulkhead EXCEPT !.running = @ + 1, !.calls[c] = "running"]
  /\ response' = NoResponse
  /\ UNCHANGED <<dbVars, circuitBreakers, now, inflight, rtVars, notPool>>

(* the continuation of a call whose resolve has been called: the loop again *)
Bulkhead_Resume(c) ==
  /\ bulkhead.calls[c] = "woken"
  /\ Bulkhead_Enter(c)
  /\ response' = NoResponse
  /\ UNCHANGED <<dbVars, circuitBreakers, now, inflight, rtVars, notPool>>

(* execute(fn) up to its first await *)
Bulkhead_Execute(c) ==
  /\ bulkhead.maxConcurrent > 0
  /\ bulkhead.calls[c] = "idle"
  /\ Bulkhead_Enter(c)
  /\ response' = NoResponse
  /\ UNCHANGED <<dbVars, circuitBreakers, now, inflight, rtVars, notPool>>

(* fn has settled: the finally block, then the result or the error *)
Bulkhead_FnSettled(c, outcome) ==
  /\ bulkhead.calls[c] = "running"
  /\ bulkhead' =
       IF bulkhead.queue = <<>>
       THEN [bulkhead EXCEPT !.running = @ - 1, !.calls[c] = "done"]
       ELSE [bulkhead EXCEPT !.running = @ - 1, !.queue = Tail(@), !.calls[c] = "done",
                             !.calls[Head(bulkhead.queue)] = "woken"]
  /\ response' = [op |-> BulkheadExecute, result |-> outcome]
  /\ UNCHANGED <<dbVars, circuitBreakers, now, inflight, rtVars, notPool>>

NextBulkhead ==
  \/ \E maxConcurrent \in MaxConcurrentInputs : Bulkhead_New(maxConcurrent)
  \/ \E c \in BulkheadCalls : Bulkhead_Execute(c)
  \/ \E c \in BulkheadCalls : Bulkhead_Resume(c)
  \/ \E c \in BulkheadCalls, outcome \in FnOutcomes : Bulkhead_FnSettled(c, outcome)

SpecBulkhead == InitVote /\ [][NextBulkhead]_vars

(* the calls that are inside fn *)
RunningCalls == {c \in BulkheadCalls : bulkhead.calls[c] = "running"}

(* C40: the number of operations running inside the Bulkhead, and the        *)
(* counter that the Bulkhead keeps of them, stay between 0 and maxConcurrent *)
C40_BulkheadBounded ==
  /\ Cardinality(RunningCalls) <= bulkhead.maxConcurrent
  /\ bulkhead.running >= 0
  /\ bulkhead.running <= bulkhead.maxConcurrent

(* a call has completed or failed, the Bulkhead is full again, a call waits  *)
C40_FullWithWaiter ==
  /\ bulkhead.maxConcurrent > 0
  /\ Cardinality(RunningCalls) = bulkhead.maxConcurrent
  /\ \E c \in BulkheadCalls : bulkhead.calls[c] = "done"
  /\ \E c \in BulkheadCalls : bulkhead.calls[c] = "queued"
====
